---- MODULE Spec2Model ----
(***************************************************************************)
(* pos-sync-service: the Sync Orchestrator (single-flight guard, full     *)
(* pass, startup sync, cron trigger) and the two reconcilers it drives    *)
(* (ProductSyncService, LoyaltySyncService), with their transformers and  *)
(* change detectors.                                                      *)
(*                                                                         *)
(* JavaScript values are records [t, n, s]: t is the typeof tag, n the    *)
(* numeric payload in thousandths (1.000 is 1000, the default tax rate    *)
(* 0.15 is 150), s the string payload, l the id list of a comma-joined    *)
(* id string.  NaN is the number whose s is "NaN".                        *)
(***************************************************************************)
EXTENDS Integers, Sequences, FiniteSets, TLC

(* ------------------------------------------------------------------ *)
(* Bounds                                                              *)
(* ------------------------------------------------------------------ *)
NumCallers == 2
MaxProducts == 2
MaxRows == 2
\* const limit = 1000 of getAllProducts, scaled down to the lists above
limit == 1
\* odooRequest calls that may be in flight together
NumRequests == 2
\* segments of a comma-separated id list a mirror row holds
MaxSegments == 3

(* ------------------------------------------------------------------ *)
(* JavaScript values and the operators the services apply to them      *)
(* ------------------------------------------------------------------ *)
JS(t, n, s) == [t |-> t, n |-> n, s |-> s, l |-> <<>>]
Undefined == JS("undefined", 0, "")
Null == JS("null", 0, "")
Bool(b) == JS("boolean", IF b THEN 1 ELSE 0, "")
Num(x) == JS("number", x, "")
Whole(i) == Num(i * 1000)
NaN == JS("number", 0, "NaN")
Str(s) == JS("string", 0, s)
\* The string [ids].join(','): a comma-joined list of product ids, kept as
\* the list (TLC has no string splitting).  IdsStr(<<>>) is the empty string.
IdsStr(ids) == [t |-> "string", n |-> 0, s |-> "", l |-> ids]

IsNaN(v) == v.t = "number" /\ v.s = "NaN"
IsNullish(v) == v.t \in {"undefined", "null"}

\* ToBoolean: what if (v), !v, a || b and a && b test.
Truthy(v) ==
    CASE v.t = "boolean" -> v.n = 1
      [] v.t = "number" -> v.n # 0 /\ v.s # "NaN"
      [] v.t = "string" -> v.s # "" \/ v.l # <<>>
      [] OTHER -> FALSE

\* a || b
Or(a, b) == IF Truthy(a) THEN a ELSE b
\* a && b
And(a, b) == IF Truthy(a) THEN b ELSE a
\* a ?? b
Coalesce(a, b) == IF IsNullish(a) THEN b ELSE a
\* a === b
StrictEq(a, b) == a = b /\ ~IsNaN(a)

\* The numeric strings of the model's vocabulary and the number each one
\* denotes; every other string parses to NaN.
NumericValue(s) ==
    CASE s = "0" -> 0
      [] s = "1" -> 1000
      [] s = "10.0" -> 10000
      [] s = "10.00" -> 10000
      [] s = "12.5" -> 12500
      [] OTHER -> -1

\* parseFloat(v): v is converted to a string first, so only numbers and
\* numeric strings parse.
parseFloat(v) ==
    CASE v.t = "number" -> v
      [] v.t = "string" /\ NumericValue(v.s) >= 0 -> Num(NumericValue(v.s))
      [] OTHER -> NaN

\* parseInt(v): as parseFloat, truncated toward zero.
parseInt(v) ==
    LET f == parseFloat(v)
    IN  IF IsNaN(f) THEN NaN
        ELSE IF f.n >= 0 THEN Num(f.n - (f.n % 1000))
        ELSE Num(0 - ((0 - f.n) - ((0 - f.n) % 1000)))

\* String.prototype.trim over the strings of the model's vocabulary: the
\* two padded names lose their padding, every other value has none.
trim(v) ==
    CASE v = Str(" Water ") -> Str("Water")
      [] v = Str("Promo ") -> Str("Promo")
      [] OTHER -> v

\* Math.round(x * 100) / 100 on a number held in thousandths.
Round2(v) ==
    IF IsNaN(v) THEN NaN
    ELSE IF v.n >= 0 THEN Num(((v.n + 5) \div 10) * 10)
    ELSE Num(0 - ((((0 - v.n) + 4) \div 10) * 10))

(* ------------------------------------------------------------------ *)
(* Change Detector helpers (identical in both services)                *)
(* ------------------------------------------------------------------ *)

\* normalizeActive with a final line that takes a missing value as off.
normalizeActiveAbsentOff(v) ==
    CASE v.t = "boolean" -> v.n
      [] v.t = "number" -> IF Truthy(v) THEN 1 ELSE 0
      [] v = Str("true") \/ v = Str("1") -> 1
      [] v = Str("false") \/ v = Str("0") -> 0
      [] OTHER -> 0

normalizeActive(v) ==
    CASE v.t = "boolean" -> v.n
      [] v.t = "number" -> IF Truthy(v) THEN 1 ELSE 0
      [] v = Str("true") \/ v = Str("1") -> 1
      [] v = Str("false") \/ v = Str("0") -> 0
      [] OTHER -> 1

normalizeNumber(v, defaultVal) ==
    LET num == parseFloat(v) IN IF IsNaN(num) THEN defaultVal ELSE num

normalizeInt(v, defaultVal) ==
    LET num == parseInt(v) IN IF IsNaN(num) THEN defaultVal ELSE num

\* if (x === null || x === undefined) x = null
NullIfMissing(v) == IF IsNullish(v) THEN Null ELSE v

(* ------------------------------------------------------------------ *)
(* ProductSyncService: transformer, change detector, row writers       *)
(* ------------------------------------------------------------------ *)

\* A multilingual field is a plain string or a locale mapping; a mapping is
\* held as an "object" whose s is the value its preference chain
\* (ar_001 || en_US || en || first value) selects, "" when none is truthy.
extractName(name) ==
    CASE name.t = "string" -> name
      [] name.t = "object" -> Or(Str(name.s), Str("Unknown"))
      [] OTHER -> Str("Unknown Product")

extractCategory(category) ==
    CASE category.t = "string" -> category
      [] category.t = "object" -> Or(Str(category.s), Str("General"))
      [] OTHER -> Str("General")


\* transformOdooProduct falling back to the template id for a product that
\* carries no id of its own.
transformSynthesizesId(data) ==
    LET hasProductId == ~IsNullish(data.product_id)
        productId == IF hasProductId THEN data.product_id ELSE data.id
        templateId == IF hasProductId
                      THEN Coalesce(data.template_id, data.id)
                      ELSE data.template_id
        isActive ==
            IF data.template_active.t # "undefined" /\ data.product_active.t # "undefined"
            THEN And(data.template_active, data.product_active)
            ELSE IF data.active.t # "undefined" THEN data.active
            ELSE Bool(TRUE)
    IN  [id |-> Coalesce(Coalesce(productId, templateId), Null),
         template_id |-> Coalesce(templateId, Null),
         barcode |-> Coalesce(data.barcode, Null),
         name |-> extractName(data.name),
         description |-> extractName(data.description),
         list_price |-> Or(parseFloat(data.list_price), Whole(0)),
         stock |-> Or(parseInt(Or(data.stock, data.qty_available)), Whole(0)),
         category |-> extractCategory(data.category),
         tax_rate |-> Or(parseFloat(data.tax_rate), Num(150)),
         active |-> isActive]

\* data is the raw record itself (the records of the model carry no
\* `data` envelope).
transformOdooProduct(data) ==
    LET hasProductId == ~IsNullish(data.product_id)
        productId == IF hasProductId THEN data.product_id ELSE data.id
        templateId == IF hasProductId
                      THEN Coalesce(data.template_id, data.id)
                      ELSE data.template_id
        isActive ==
            IF data.template_active.t # "undefined" /\ data.product_active.t # "undefined"
            THEN And(data.template_active, data.product_active)
            ELSE IF data.active.t # "undefined" THEN data.active
            ELSE Bool(TRUE)
    IN  [id |-> Coalesce(productId, Null),
         template_id |-> Coalesce(templateId, Null),
         barcode |-> Coalesce(data.barcode, Null),
         name |-> extractName(data.name),
         description |-> extractName(data.description),
         list_price |-> Or(parseFloat(data.list_price), Whole(0)),
         stock |-> Or(parseInt(Or(data.stock, data.qty_available)), Whole(0)),
         category |-> extractCategory(data.category),
         tax_rate |-> Or(parseFloat(data.tax_rate), Num(150)),
         active |-> isActive]

\* One entry of fieldsToCompare: TRUE when the normalized values differ.
ProductFieldChanged(field, odooRaw, localRaw) ==
    IF field = "active"
    THEN normalizeActive(odooRaw) # normalizeActive(localRaw)
    ELSE LET norm(v) ==
                 CASE field \in {"template_id", "stock"} -> normalizeInt(v, Null)
                   [] field \in {"list_price", "tax_rate"} -> normalizeNumber(v, Whole(0))
                   [] OTHER -> v
         IN  ~StrictEq(NullIfMissing(norm(odooRaw)), NullIfMissing(norm(localRaw)))

\* ProductSyncService.hasChanges(odooProduct, localProduct)
ProductHasChanges(odooProduct, localProduct) ==
    \/ ProductFieldChanged("template_id", odooProduct.template_id, localProduct.template_id)
    \/ ProductFieldChanged("name", odooProduct.name, localProduct.name)
    \/ ProductFieldChanged("description", odooProduct.description, localProduct.description)
    \/ ProductFieldChanged("barcode", odooProduct.barcode, localProduct.barcode)
    \/ ProductFieldChanged("list_price", odooProduct.list_price, localProduct.price)
    \/ ProductFieldChanged("stock", odooProduct.stock, localProduct.stock)
    \/ ProductFieldChanged("category", odooProduct.category, localProduct.category)
    \/ ProductFieldChanged("tax_rate", odooProduct.tax_rate, localProduct.tax_rate)
    \/ ProductFieldChanged("active", odooProduct.active, localProduct.active)

\* product.active !== false ? 1 : 0
ProductActiveParam(active) == IF active = Bool(FALSE) THEN Whole(0) ELSE Whole(1)

\* The column values createProduct and updateProduct bind (params), as the
\* row a later SELECT * returns.
ProductRow(product, id) ==
    [id |-> id,
     template_id |-> Coalesce(product.template_id, Null),
     barcode |-> Coalesce(product.barcode, Null),
     name |-> Coalesce(product.name, Str("Unknown Product")),
     description |-> Coalesce(product.description, Null),
     price |-> Coalesce(product.list_price, Whole(0)),
     stock |-> Coalesce(product.stock, Whole(0)),
     category |-> Coalesce(product.category, Str("General")),
     tax_rate |-> Coalesce(product.tax_rate, Num(150)),
     active |-> ProductActiveParam(product.active)]

(* ------------------------------------------------------------------ *)
(* LoyaltySyncService: grouper, type filter, transformer, detector     *)
(* ------------------------------------------------------------------ *)

RECURSIVE SortAsc(_)
\* [...set].sort((a, b) => a - b)
SortAsc(S) ==
    IF S = {} THEN <<>>
    ELSE LET m == CHOOSE x \in S : \A y \in S : x <= y
         IN  <<m>> \o SortAsc(S \ {m})

SeqRange(q) == {q[i] : i \in 1..Len(q)}

\* A segment of a split id list that holds nothing but whitespace, which
\* the filter after trim drops; every other segment is the id it parses to.
EmptySegment == -1
IsIdSegment(x) == x # EmptySegment

\* normalizeProductIds without the Set and the sort: the ids in the order
\* and number the list holds them.
normalizeKeepsListOrder(productIds) ==
    IF ~Truthy(productIds) THEN IdsStr(<<>>)
    ELSE IF productIds.t # "string" THEN IdsStr(<<>>)
    ELSE IF productIds.l # <<>> THEN IdsStr(SelectSeq(productIds.l, IsIdSegment))
    ELSE IF NumericValue(productIds.s) >= 0
         THEN IdsStr(<<NumericValue(productIds.s) \div 1000>>)
    ELSE IdsStr(<<>>)

\* LoyaltySyncService.normalizeProductIds(productIds): split on commas,
\* trim, drop the empty pieces, parseInt each piece, drop NaN, dedupe, sort
\* ascending, join.
normalizeProductIds(productIds) ==
    IF ~Truthy(productIds) THEN IdsStr(<<>>)
    ELSE IF productIds.t # "string" THEN IdsStr(<<>>)
    ELSE IF productIds.l # <<>>
         THEN IdsStr(SortAsc(SeqRange(SelectSeq(productIds.l, IsIdSegment))))
    ELSE IF NumericValue(productIds.s) >= 0
         THEN IdsStr(<<NumericValue(productIds.s) \div 1000>>)
    ELSE IdsStr(<<>>)


\* The normalizeActive helper inside LoyaltySyncService.hasChanges.
loyaltyNormalizeActive(v) ==
    CASE v.t = "boolean" -> v.n
      [] v.t = "number" -> IF Truthy(v) THEN 1 ELSE 0
      [] v = Str("true") \/ v = Str("1") -> 1
      [] v = Str("false") \/ v = Str("0") -> 0
      [] OTHER -> IF v # Bool(FALSE) /\ v # Whole(0) THEN 1 ELSE 0

\* The group a first-seen row seeds (groups.set(programId, {...})).
NewGroup(row) ==
    [program_id |-> row.program_id,
     program_name |-> row.name,
     program_type |-> Or(Or(row.promotion_type, row.type), Str("promotion")),
     total_price |-> Or(parseFloat(Or(row.loyalty_program_total_price, row.total_price)), Whole(0)),
     after_discount |-> Or(parseFloat(Or(row.loyalty_program_after_discount, row.after_discount)), Whole(0)),
     discount |-> Or(parseFloat(Or(row.loyalty_program_discount, row.discount_amount)), Whole(0)),
     min_qty |-> Or(parseInt(Or(Or(row.loyalty_program_minimum_qty, row.min_quantity), row.buy_quantity)), Whole(1)),
     buy_quantity |-> Or(parseInt(row.buy_quantity), Whole(1)),
     free_quantity |-> Or(parseInt(row.free_quantity), Whole(1)),
     reward_quantity |-> Or(parseInt(Or(row.reward_quantity, row.free_quantity)), Whole(1)),
     discount_percent |-> Or(parseFloat(row.discount_percent), Whole(0)),
     rule_id |-> row.rule_id,
     rule_active |-> row.rule_active,
     active |-> row.active,
     product_ids |-> <<>>]

\* The member ids one row contributes, in the order the loop adds them:
\* the ids of eligible_products (an entry without an id is 0 and is
\* dropped), or main_product's id when eligible_products is empty (0: no
\* main product).
RowMemberIds(row) ==
    IF Len(row.eligible_products) = 0
    THEN IF row.main_product # 0 THEN <<row.main_product>> ELSE <<>>
    ELSE SelectSeq(row.eligible_products, LAMBDA x : x # 0)

RECURSIVE SetAdd(_, _)
\* product_ids.add(id) for each id of ids: a Set keeps insertion order and
\* ignores a value it already holds.
SetAdd(members, ids) ==
    IF ids = <<>> THEN members
    ELSE SetAdd(IF Head(ids) \in SeqRange(members) THEN members
                ELSE Append(members, Head(ids)),
                Tail(ids))

GroupIndex(groups, programId) ==
    {i \in 1..Len(groups) : groups[i].program_id = programId}

RECURSIVE GroupRowsLastWins(_, _)
\* A grouping loop in which every row of a program sets the scalars again.
GroupRowsLastWins(rows, groups) ==
    IF rows = <<>> THEN groups
    ELSE LET row == Head(rows)
             at == GroupIndex(groups, row.program_id)
             seeded == IF at = {} THEN Append(groups, NewGroup(row)) ELSE groups
             i == CHOOSE k \in GroupIndex(seeded, row.program_id) : TRUE
         IN  IF ~Truthy(row.program_id) THEN GroupRowsLastWins(Tail(rows), groups)
             ELSE GroupRowsLastWins(Tail(rows),
                     [seeded EXCEPT ![i] = [NewGroup(row) EXCEPT
                         !.product_ids = SetAdd(seeded[i].product_ids, RowMemberIds(row))]])

RECURSIVE GroupRows(_, _)
\* The loop of groupByProgram over the rows left, groups in Map insertion
\* order.
GroupRows(rows, groups) ==
    IF rows = <<>> THEN groups
    ELSE LET row == Head(rows)
             at == GroupIndex(groups, row.program_id)
             seeded == IF at = {} THEN Append(groups, NewGroup(row)) ELSE groups
             i == CHOOSE k \in GroupIndex(seeded, row.program_id) : TRUE
         IN  IF ~Truthy(row.program_id) THEN GroupRows(Tail(rows), groups)
             ELSE GroupRows(Tail(rows),
                     [seeded EXCEPT ![i].product_ids = SetAdd(@, RowMemberIds(row))])

groupByProgram(rows) == GroupRows(rows, <<>>)

\* String.prototype.toLowerCase on the type names of the model.
toLowerCase(s) ==
    CASE s = "PROMOTION" -> "promotion"
      [] s = "Buy_X_Get_Y" -> "buy_x_get_y"
      [] OTHER -> s

allowedTypes == {"promotion", "buy_x_get_y", "buyxgety"}

\* The allow-list test without toLowerCase.
GroupTypeAllowedExact(group) == Or(group.program_type, Str("")).s \in allowedTypes

GroupTypeAllowed(group) == toLowerCase(Or(group.program_type, Str("")).s) \in allowedTypes

\* filterProgramTypes: the groups kept, in order; the others are counted
\* under filtered.
filterProgramTypes(groups) == SelectSeq(groups, GroupTypeAllowed)

\* A type filter that drops groups without counting them.
FilteredUncounted(groups) == 0

FilteredCount(groups) == Len(groups) - Len(filterProgramTypes(groups))

\* Math.round(a / b) for a >= 0, b > 0.
RoundDiv(a, b) == (2 * a + b) \div (2 * b)


\* transformGroupedProgram joining the member ids in the order the Set
\* holds them, without the sort.
transformKeepsInsertionOrder(group) ==
    LET productIds == IdsStr(group.product_ids)
        fullPrice == (group.total_price.n * group.min_qty.n) \div 1000
        discountPercent ==
            IF fullPrice > 0
            THEN Num(RoundDiv(group.discount.n * 10000, fullPrice) * 10)
            ELSE Whole(0)
        programType == toLowerCase(Or(group.program_type, Str("")).s)
    IN  [name |-> Or(group.program_name, Str("Unknown Program")),
         type |-> IF programType \in {"buy_x_get_y", "buyxgety"} THEN Whole(1) ELSE Whole(0),
         trigger_product_ids |-> productIds,
         reward_product_ids |-> productIds,
         min_quantity |-> Or(Or(group.min_qty, group.buy_quantity), Whole(1)),
         max_quantity |-> Whole(1),
         reward_quantity |-> Or(Or(group.reward_quantity, group.free_quantity), Whole(1)),
         discount_percent |-> Or(Or(discountPercent, group.discount_percent), Whole(0)),
         discount_amount |-> Round2(group.discount),
         after_discount |-> Round2(group.after_discount),
         total_price |-> Round2(group.total_price),
         active |-> IF group.active.t # "undefined"
                    THEN Bool(group.active = Bool(TRUE) \/ group.active = Str("True"))
                    ELSE Bool(group.rule_active = Str("True") \/ group.rule_active = Bool(TRUE)),
         odoo_program_id |-> Or(parseInt(group.program_id), Null),
         odoo_rule_id |-> Or(parseInt(group.rule_id), Null)]

transformGroupedProgram(group) ==
    LET productIds == IdsStr(SortAsc(SeqRange(group.product_ids)))
        fullPrice == (group.total_price.n * group.min_qty.n) \div 1000
        discountPercent ==
            IF fullPrice > 0
            THEN Num(RoundDiv(group.discount.n * 10000, fullPrice) * 10)
            ELSE Whole(0)
        programType == toLowerCase(Or(group.program_type, Str("")).s)
    IN  [name |-> Or(group.program_name, Str("Unknown Program")),
         type |-> IF programType \in {"buy_x_get_y", "buyxgety"} THEN Whole(1) ELSE Whole(0),
         trigger_product_ids |-> productIds,
         reward_product_ids |-> productIds,
         min_quantity |-> Or(Or(group.min_qty, group.buy_quantity), Whole(1)),
         max_quantity |-> Whole(1),
         reward_quantity |-> Or(Or(group.reward_quantity, group.free_quantity), Whole(1)),
         discount_percent |-> Or(Or(discountPercent, group.discount_percent), Whole(0)),
         discount_amount |-> Round2(group.discount),
         after_discount |-> Round2(group.after_discount),
         total_price |-> Round2(group.total_price),
         active |-> IF group.active.t # "undefined"
                    THEN Bool(group.active = Bool(TRUE) \/ group.active = Str("True"))
                    ELSE Bool(group.rule_active = Str("True") \/ group.rule_active = Bool(TRUE)),
         odoo_program_id |-> Or(parseInt(group.program_id), Null),
         odoo_rule_id |-> Or(parseInt(group.rule_id), Null)]

\* One entry of the loyalty fieldsToCompare.
LoyaltyFieldChanged(field, odooRaw, localRaw) ==
    IF field = "active"
    THEN loyaltyNormalizeActive(odooRaw) # loyaltyNormalizeActive(localRaw)
    ELSE LET norm(v) ==
                 CASE field \in {"trigger_product_ids", "reward_product_ids"} ->
                          normalizeProductIds(v)
                   [] field \in {"type", "min_quantity", "max_quantity",
                                 "reward_quantity", "odoo_rule_id"} ->
                          normalizeInt(v, Null)
                   [] field \in {"discount_percent", "discount_amount",
                                 "after_discount", "total_price"} ->
                          normalizeNumber(v, Null)
                   [] OTHER -> v
         IN  ~StrictEq(NullIfMissing(norm(odooRaw)), NullIfMissing(norm(localRaw)))

LoyaltyFields ==
    {"name", "type", "trigger_product_ids", "reward_product_ids", "min_quantity",
     "max_quantity", "reward_quantity", "discount_percent", "discount_amount",
     "after_discount", "total_price", "active", "odoo_rule_id"}

\* LoyaltySyncService.hasChanges(odooProgram, localProgram)
LoyaltyHasChanges(odooProgram, localProgram) ==
    \E field \in LoyaltyFields :
        LoyaltyFieldChanged(field, odooProgram[field], localProgram[field])

\* The column values createLoyaltyProgram and updateLoyaltyProgram bind,
\* as the row a later SELECT * returns; id is the mirror's own row id.
\* start_date, end_date and the bookkeeping timestamps are not compared by
\* the detector and are left out of the row.
LoyaltyRow(program, id) ==
    [id |-> id,
     name |-> program.name,
     type |-> Or(program.type, Whole(0)),
     trigger_product_ids |-> Or(program.trigger_product_ids, Null),
     reward_product_ids |-> Or(program.reward_product_ids, Null),
     min_quantity |-> Or(program.min_quantity, Whole(1)),
     max_quantity |-> Or(program.max_quantity, Whole(1)),
     reward_quantity |-> Or(program.reward_quantity, Whole(1)),
     discount_percent |-> Or(program.discount_percent, Whole(0)),
     discount_amount |-> Or(program.discount_amount, Null),
     after_discount |-> Or(program.after_discount, Null),
     total_price |-> Or(program.total_price, Null),
     active |-> IF program.active = Bool(FALSE) THEN Whole(0) ELSE Whole(1),
     odoo_program_id |-> Or(program.odoo_program_id, Null),
     odoo_rule_id |-> Or(program.odoo_rule_id, Null)]

(* ------------------------------------------------------------------ *)
(* The remote datasets the model draws from                            *)
(* ------------------------------------------------------------------ *)

\* A raw product record of GET /api/products/all.
RawProduct(id, templateId, listPrice, active) ==
    [id |-> id, product_id |-> Undefined, template_id |-> templateId,
     barcode |-> Str("6281"), name |-> Str("Water"), description |-> Undefined,
     list_price |-> listPrice, stock |-> Undefined, qty_available |-> Undefined,
     category |-> Undefined, tax_rate |-> Undefined, active |-> active,
     template_active |-> Undefined, product_active |-> Undefined]

ProductCatalogue ==
    {RawProduct(Whole(1), Whole(10), Str("10.0"), Bool(TRUE)),
     RawProduct(Whole(1), Whole(10), Num(12500), Bool(TRUE)),
     RawProduct(Whole(2), Whole(20), Whole(0), Bool(FALSE)),
     RawProduct(Whole(2), Whole(20), Whole(0), Whole(0)),
     RawProduct(Undefined, Whole(10), Whole(1), Bool(TRUE)),
     RawProduct(Whole(2), Undefined, Whole(1), Bool(TRUE))}

\* A raw loyalty row of GET /api/loyalty/all: one row per eligible product
\* of a program.
RawRow(programId, type, discount, eligible) ==
    [program_id |-> programId, name |-> Str("Promo"), type |-> type,
     promotion_type |-> Undefined, active |-> Bool(TRUE),
     buy_quantity |-> Undefined, free_quantity |-> Undefined,
     reward_quantity |-> Undefined, discount_percent |-> Undefined,
     discount_amount |-> discount, after_discount |-> Whole(15),
     total_price |-> Whole(20), min_quantity |-> Whole(1),
     loyalty_program_total_price |-> Undefined,
     loyalty_program_after_discount |-> Undefined,
     loyalty_program_discount |-> Undefined,
     loyalty_program_minimum_qty |-> Undefined,
     rule_id |-> Whole(3), rule_active |-> Bool(TRUE),
     main_product |-> 0, eligible_products |-> eligible]

RowCatalogue ==
    {RawRow(Whole(501), Str("promotion"), Whole(5), <<7>>),
     RawRow(Whole(501), Str("promotion"), Whole(5), <<9>>),
     RawRow(Whole(501), Str("promotion"), Whole(4), <<9, 7>>),
     RawRow(Whole(502), Str("buy_x_get_y"), Whole(0), <<7>>),
     RawRow(Whole(503), Str("coupon"), Whole(5), <<7>>),
     RawRow(Str("abc"), Str("PROMOTION"), Whole(5), <<7>>),
     RawRow(Undefined, Str("promotion"), Whole(5), <<7>>)}


\* The forms in which an active flag reaches the detectors.
ActiveForms == {Bool(TRUE), Whole(1), Str("1"), Str("true")}
InactiveForms == {Bool(FALSE), Whole(0), Str("0"), Str("false")}
AbsentForms == {Undefined, Null}

SeqsUpTo(S, n) == UNION {[1..k -> S] : k \in 0..n}

ProductLists == SeqsUpTo(ProductCatalogue, MaxProducts)
RowLists == SeqsUpTo(RowCatalogue, MaxRows)

\* The remote datasets of the reconciler specification: one entity type at
\* a time carries data (the two reconciliations are independent).
ReconWorlds ==
    {[products |-> P, loyalty |-> <<>>] : P \in ProductLists}
        \cup {[products |-> <<>>, loyalty |-> L] : L \in RowLists}


\* The template_active / product_active pairs of the flag specification:
\* booleans, 0/1 and stringified booleans.
FlagPairs ==
    {<<Bool(TRUE), Bool(TRUE)>>, <<Bool(TRUE), Bool(FALSE)>>,
     <<Bool(FALSE), Bool(TRUE)>>, <<Whole(1), Whole(1)>>, <<Whole(1), Whole(0)>>,
     <<Whole(0), Whole(1)>>, <<Str("true"), Str("true")>>,
     <<Str("true"), Str("false")>>}

\* The remote datasets of the flag specification: one product and one
\* loyalty row that carry the same form of the active flag, or a product
\* that carries a pair of template and product flags.
FlagWorlds ==
    {[products |-> <<RawProduct(Whole(1), Whole(10), Str("10.0"), v)>>,
      loyalty |-> <<[RawRow(Whole(501), Str("promotion"), Whole(5), <<7>>)
                        EXCEPT !.active = v]>>] :
        v \in ActiveForms \cup InactiveForms \cup AbsentForms}
    \cup
    {[products |-> <<[RawProduct(Whole(1), Whole(10), Str("10.0"), Undefined)
                        EXCEPT !.template_active = pair[1],
                               !.product_active = pair[2]]>>,
      loyalty |-> <<RawRow(Whole(501), Str("promotion"), Whole(5), <<7>>)>>] :
        pair \in FlagPairs}


\* The remote datasets of the churn specification: between them products
\* and programs appear, change and disappear.
ChurnWorlds ==
    {[products |-> <<RawProduct(Whole(1), Whole(10), Str("10.0"), Bool(TRUE)),
                     RawProduct(Whole(2), Whole(20), Whole(0), Bool(FALSE))>>,
      loyalty |-> <<RawRow(Whole(501), Str("promotion"), Whole(5), <<7>>)>>],
     [products |-> <<RawProduct(Whole(1), Whole(10), Num(12500), Bool(TRUE))>>,
      loyalty |-> <<RawRow(Whole(502), Str("buy_x_get_y"), Whole(0), <<7>>)>>],
     [products |-> <<>>,
      loyalty |-> <<RawRow(Whole(501), Str("promotion"), Whole(4), <<9, 7>>)>>],
     [products |-> <<[RawProduct(Whole(1), Whole(10), Str("10.0"), Bool(TRUE))
                        EXCEPT !.name = Str(" Water ")]>>,
      loyalty |-> <<[RawRow(Whole(501), Str("promotion"), Whole(5), <<7>>)
                        EXCEPT !.name = Str("Promo ")]>>]}

\* The remote datasets of the orchestrator specification.
OrchWorlds ==
    {[products |-> <<RawProduct(Whole(1), Whole(10), Str("10.0"), Bool(TRUE))>>,
      loyalty |-> <<RawRow(Whole(501), Str("promotion"), Whole(5), <<7>>)>>]}

(* ------------------------------------------------------------------ *)
(* State                                                               *)
(* ------------------------------------------------------------------ *)
VARIABLES
    isRunning,       \* SyncOrchestrator.isRunning
    lastSyncResult,  \* SyncOrchestrator.lastSyncResult
    initialized,     \* SyncOrchestrator.initialized
    cronJob,         \* SyncOrchestrator.cronJob holds a task
    liveTasks,       \* node-cron tasks scheduled and not stopped
    autoSync,        \* process.env.AUTO_SYNC_ENABLED === 'true'
    pc,              \* each invocation's position
    op,              \* the handler each invocation runs
    ret,             \* what a finished invocation handed its caller
    frame,           \* the locals of each invocation's reconciler call
    productStats,    \* ProductSyncService.syncStats
    loyaltyStats,    \* LoyaltySyncService.syncStats
    mirrorP,         \* table products: a set of rows, id the primary key
    mirrorL,         \* table loyalty_programs: rows in insertion order
    remote,          \* what the remote system serves
    authToken,       \* odooClient.js: let authToken (0: null or undefined)
    issued,          \* tokens POST /api/auth/token has handed out so far
    rq               \* each odooRequest call: position, traffic, outcome

vars == <<isRunning, lastSyncResult, initialized, cronJob, liveTasks, autoSync,
          pc, op, ret, frame, productStats, loyaltyStats, mirrorP, mirrorL,
          remote, authToken, issued, rq>>

\* The state of the Odoo client, and the state of everything else.
clientVars == <<authToken, issued, rq>>
serviceVars == <<isRunning, lastSyncResult, initialized, cronJob, liveTasks,
                 autoSync, pc, op, ret, frame, productStats, loyaltyStats,
                 mirrorP, mirrorL, remote>>

Requests == 1..NumRequests

\* An odooRequest call not made yet: no request sent, no token asked for.
\* sent lists the attempts of the request, each with the Authorization
\* token it carried and the status it met (-1: in flight); auths lists the
\* getAuthToken calls, each with its place ("try" or "catch"), the token
\* it returned (0: none) and how it ended.
IdleRequest ==
    [pc |-> "idle", sent |-> <<>>, auths |-> <<>>,
     result |-> [kind |-> "none", status |-> 0, attempt |-> 0]]

\* initialize() of odooClient.js, run when the module is loaded: its
\* getAuthToken call is in flight once the process is up.
Boot == 0
BootRequest ==
    [IdleRequest EXCEPT !.pc = "load",
                        !.auths = <<[at |-> "load", token |-> 0, status |-> "pending"]>>]

Callers == 1..NumCallers

\* syncStats after resetStats() (lastSync, a timestamp, is left out).
ZeroStats ==
    [created |-> 0, updated |-> 0, skipped |-> 0, unchanged |-> 0,
     filtered |-> 0, errors |-> 0]

Bump(stats, counter) == [stats EXCEPT ![counter] = @ + 1]

\* What a reconciler returns: {success, stats} (the error text of a failure
\* is left out); ran is FALSE for the null a result slot holds before its
\* reconciler has returned.
NullSub == [ran |-> FALSE, success |-> FALSE, stats |-> ZeroStats]
SubResult(success, stats) == [ran |-> TRUE, success |-> success, stats |-> stats]

\* What an invocation hands its caller: a returned object (kind "object",
\* with its success flag and error text), a returned undefined ("void")
\* or a thrown exception ("throw").
Outcome(kind, success, error, products, loyalty) ==
    [kind |-> kind, success |-> success, error |-> error,
     products |-> products, loyalty |-> loyalty]
NoOutcome == Outcome("none", FALSE, "", NullSub, NullSub)
Void == Outcome("void", FALSE, "", NullSub, NullSub)
Thrown(error) == Outcome("throw", FALSE, error, NullSub, NullSub)

EmptyFrame ==
    [odooProducts |-> <<>>, offset |-> 0, groups |-> <<>>, i |-> 0,
     localProductsMap |-> {}, localProgramsMap |-> <<>>, products |-> NullSub]


\* The service objects after construction, whatever the mirror tables hold.
InitProcess ==
    /\ isRunning = FALSE
    /\ lastSyncResult = NoOutcome
    /\ initialized = FALSE
    /\ cronJob = FALSE
    /\ liveTasks = 0
    /\ autoSync \in BOOLEAN
    /\ pc = [c \in Callers |-> "idle"]
    /\ op = [c \in Callers |-> "none"]
    /\ ret = [c \in Callers |-> NoOutcome]
    /\ frame = [c \in Callers |-> EmptyFrame]
    /\ productStats = ZeroStats
    /\ loyaltyStats = ZeroStats
    /\ authToken = 0
    /\ issued = 0
    /\ rq = [r \in {Boot} \cup Requests |->
                IF r = Boot THEN BootRequest ELSE IdleRequest]

\* The service started over empty mirror tables.
InitCommon ==
    /\ InitProcess
    /\ mirrorP = {}
    /\ mirrorL = <<>>

Init == InitCommon /\ remote \in OrchWorlds


InitFlags == InitCommon /\ remote \in FlagWorlds


\* The id lists a loyalty_programs row may hold: up to MaxSegments
\* segments, each the id 7, the id 9 or empty, in any order and number.
IdLists == SeqsUpTo({7, 9, EmptySegment}, MaxSegments)

\* The trigger and reward lists of the stored row: the same list twice, or
\* any list next to the list "7".
IdListPairs ==
    {<<ids, ids>> : ids \in IdLists} \cup {<<(<<7>>), ids>> : ids \in IdLists}

\* The loyalty_programs row of program 501 as an earlier writer left it,
\* holding the id lists of pair.
StoredProgram(pair) ==
    [LoyaltyRow(transformGroupedProgram(
                    groupByProgram(<<RawRow(Whole(501), Str("promotion"), Whole(5), <<7>>)>>)[1]),
                1)
        EXCEPT !.trigger_product_ids = Or(IdsStr(pair[1]), Null),
               !.reward_product_ids = Or(IdsStr(pair[2]), Null)]

\* The remote datasets of the id-list specification: program 501 with the
\* members {7}, with the members {7, 9} delivered as 9 then 7, or with no
\* member at all.
IdWorlds ==
    {[products |-> <<RawProduct(Whole(1), Whole(10), Str("10.0"), Bool(TRUE))>>,
      loyalty |-> L] :
        L \in {<<RawRow(Whole(501), Str("promotion"), Whole(5), <<7>>)>>,
               <<RawRow(Whole(501), Str("promotion"), Whole(5), <<9>>),
                 RawRow(Whole(501), Str("promotion"), Whole(5), <<7>>)>>,
               <<RawRow(Whole(501), Str("promotion"), Whole(5), <<0>>)>>}}

\* The service started over a loyalty_programs table that already holds
\* the row of program 501.
InitIds ==
    /\ InitProcess
    /\ mirrorP = {}
    /\ \E pair \in IdListPairs : mirrorL = <<StoredProgram(pair)>>
    /\ remote \in IdWorlds

InitChurn == InitCommon /\ ~autoSync /\ remote \in ChurnWorlds

InitRecon == InitCommon /\ remote \in ReconWorlds

(* ------------------------------------------------------------------ *)
(* SyncOrchestrator                                                    *)
(* ------------------------------------------------------------------ *)

\* A guard that never sees a pass in flight.
GuardNever(running) == FALSE

\* if (this.isRunning): the single-flight guard of runFullSync,
\* syncProducts and syncLoyalty.
GuardBusy(running) == running

RejectedFull == Outcome("object", FALSE, "Sync already in progress", NullSub, NullSub)
RejectedPart == Outcome("object", FALSE, "Sync in progress", NullSub, NullSub)

\* results.success = results.products?.success
FullSyncSuccess(products, loyalty) == products.success

\* What the caller is shown of an outcome: everything but the counters,
\* which stay readable in syncStats and lastSyncResult.
Handed(outcome) ==
    [outcome EXCEPT !.products.stats = ZeroStats, !.loyalty.stats = ZeroStats]

\* An invocation ends: its outcome goes to its caller.
Finish(c, outcome) ==
    /\ pc' = [pc EXCEPT ![c] = "returned"]
    /\ ret' = [ret EXCEPT ![c] = Handed(outcome)]
    /\ frame' = [frame EXCEPT ![c] = EmptyFrame]

\* setupCronJob() scheduling a new task without stopping the one held.
CronAfterSetupKeepsOld == [job |-> TRUE, live |-> liveTasks + 1]

\* setupCronJob(): stop the task held, schedule a new one.
CronAfterSetup == [job |-> TRUE, live |-> (IF cronJob THEN liveTasks - 1 ELSE liveTasks) + 1]
\* stopCronJob(): stop the task held and drop it.
CronAfterStop == [job |-> FALSE, live |-> IF cronJob THEN liveTasks - 1 ELSE liveTasks]

\* A rejection that resets the product counters on its way out.
FullSyncRejectedResets(c) ==
    /\ Finish(c, RejectedFull)
    /\ productStats' = ZeroStats
    /\ UNCHANGED isRunning

\* runFullSync rejected by the guard: return {success: false, error}.
FullSyncRejected(c) ==
    /\ Finish(c, RejectedFull)
    /\ UNCHANGED <<isRunning, productStats>>


\* runFullSync accepted, with a syncAllProducts that goes on counting from
\* the counters of the pass before.
FullSyncAcceptedKeepsStats(c) ==
    /\ isRunning' = TRUE
    /\ productStats' = productStats
    /\ pc' = [pc EXCEPT ![c] = "p_fetch"]
    /\ frame' = [frame EXCEPT ![c] = EmptyFrame]
    /\ UNCHANGED ret

\* runFullSync accepted: take the guard and call syncAllProducts, which
\* resets its stats and awaits odooApi.getAllProducts().
FullSyncAccepted(c) ==
    /\ isRunning' = TRUE
    /\ productStats' = ZeroStats
    /\ pc' = [pc EXCEPT ![c] = "p_fetch"]
    /\ frame' = [frame EXCEPT ![c] = EmptyFrame]
    /\ UNCHANGED ret

\* The body of runFullSync up to its first await.
FullSyncCall(c) ==
    IF GuardBusy(isRunning) THEN FullSyncRejected(c) ELSE FullSyncAccepted(c)

\* POST /api/sync/full, or the manual sync script: runFullSync().
RunFullSync(c) ==
    /\ pc[c] = "idle"
    /\ op' = [op EXCEPT ![c] = "runFullSync"]
    /\ FullSyncCall(c)
    /\ UNCHANGED <<lastSyncResult, initialized, cronJob, liveTasks, autoSync,
                   loyaltyStats, mirrorP, mirrorL, remote>>
    /\ UNCHANGED clientVars

\* A tick of the scheduled task: its callback awaits runFullSync().
CronTick(c) ==
    /\ liveTasks > 0
    /\ pc[c] = "idle"
    /\ op' = [op EXCEPT ![c] = "cron"]
    /\ FullSyncCall(c)
    /\ UNCHANGED <<lastSyncResult, initialized, cronJob, liveTasks, autoSync,
                   loyaltyStats, mirrorP, mirrorL, remote>>
    /\ UNCHANGED clientVars

\* A syncProducts that does not look at the guard.
SyncProductsUnguarded(c) ==
    /\ pc[c] = "idle"
    /\ op' = [op EXCEPT ![c] = "syncProducts"]
    /\ isRunning' = TRUE
    /\ productStats' = ZeroStats
    /\ pc' = [pc EXCEPT ![c] = "p_fetch"]
    /\ frame' = [frame EXCEPT ![c] = EmptyFrame]
    /\ UNCHANGED ret
    /\ UNCHANGED <<lastSyncResult, initialized, cronJob, liveTasks, autoSync,
                   loyaltyStats, mirrorP, mirrorL, remote>>
    /\ UNCHANGED clientVars

\* syncProducts(): guard, then syncAllProducts alone.
SyncProducts(c) ==
    /\ pc[c] = "idle"
    /\ op' = [op EXCEPT ![c] = "syncProducts"]
    /\ IF GuardBusy(isRunning)
       THEN /\ Finish(c, RejectedPart)
            /\ UNCHANGED <<isRunning, productStats>>
       ELSE /\ isRunning' = TRUE
            /\ productStats' = ZeroStats
            /\ pc' = [pc EXCEPT ![c] = "p_fetch"]
            /\ frame' = [frame EXCEPT ![c] = EmptyFrame]
            /\ UNCHANGED ret
    /\ UNCHANGED <<lastSyncResult, initialized, cronJob, liveTasks, autoSync,
                   loyaltyStats, mirrorP, mirrorL, remote>>
    /\ UNCHANGED clientVars

\* syncLoyalty(): guard, then loyaltySyncService.syncFromOdoo().
SyncLoyalty(c) ==
    /\ pc[c] = "idle"
    /\ op' = [op EXCEPT ![c] = "syncLoyalty"]
    /\ IF GuardBusy(isRunning)
       THEN /\ Finish(c, RejectedPart)
            /\ UNCHANGED isRunning
       ELSE /\ isRunning' = TRUE
            /\ pc' = [pc EXCEPT ![c] = "l_only"]
            /\ UNCHANGED <<ret, frame>>
    /\ UNCHANGED <<lastSyncResult, initialized, cronJob, liveTasks, autoSync,
                   productStats, loyaltyStats, mirrorP, mirrorL, remote>>
    /\ UNCHANGED clientVars

\* A syncLoyalty without its finally block: the throw leaves the guard set.
SyncLoyaltyThrowsHolding(c) ==
    /\ pc[c] = "l_only"
    /\ Finish(c, Thrown("loyaltySyncService.syncFromOdoo is not a function"))
    /\ UNCHANGED <<op, isRunning, lastSyncResult, initialized, cronJob, liveTasks,
                   autoSync, productStats, loyaltyStats, mirrorP, mirrorL, remote>>
    /\ UNCHANGED clientVars

\* The unified LoyaltySyncService defines no syncFromOdoo: the call throws
\* a TypeError inside the try, and the finally block releases the guard.
SyncLoyaltyThrows(c) ==
    /\ pc[c] = "l_only"
    /\ isRunning' = FALSE
    /\ Finish(c, Thrown("loyaltySyncService.syncFromOdoo is not a function"))
    /\ UNCHANGED <<op, lastSyncResult, initialized, cronJob, liveTasks, autoSync,
                   productStats, loyaltyStats, mirrorP, mirrorL, remote>>
    /\ UNCHANGED clientVars

\* initialize(): skip when already initialized, else test the database.
Initialize(c) ==
    /\ pc[c] = "idle"
    /\ op' = [op EXCEPT ![c] = "initialize"]
    /\ IF initialized
       THEN Finish(c, Void)
       ELSE /\ pc' = [pc EXCEPT ![c] = "init_db"]
            /\ UNCHANGED <<ret, frame>>
    /\ UNCHANGED <<isRunning, lastSyncResult, initialized, cronJob, liveTasks,
                   autoSync, productStats, loyaltyStats, mirrorP, mirrorL, remote>>
    /\ UNCHANGED clientVars

\* db.testConnection() answered: a failed test throws out of initialize.
InitDbTested(c) ==
    /\ pc[c] = "init_db"
    /\ \E dbConnected \in BOOLEAN :
          IF dbConnected
          THEN /\ pc' = [pc EXCEPT ![c] = "init_odoo"]
               /\ UNCHANGED <<ret, frame>>
          ELSE Finish(c, Thrown("Failed to connect to MySQL database"))
    /\ UNCHANGED <<op, isRunning, lastSyncResult, initialized, cronJob, liveTasks,
                   autoSync, productStats, loyaltyStats, mirrorP, mirrorL, remote>>
    /\ UNCHANGED clientVars

\* odooApi.testConnection() answered (either way): mark initialized and run
\* the startup sync; when the guard rejects it, initialize goes on to the
\* cron setup at once.
InitOdooTested(c) ==
    /\ pc[c] = "init_odoo"
    /\ initialized' = TRUE
    /\ IF GuardBusy(isRunning)
       THEN /\ Finish(c, Void)
            /\ cronJob' = IF autoSync THEN CronAfterSetup.job ELSE cronJob
            /\ liveTasks' = IF autoSync THEN CronAfterSetup.live ELSE liveTasks
            /\ UNCHANGED <<isRunning, productStats>>
       ELSE /\ FullSyncAccepted(c)
            /\ UNCHANGED <<cronJob, liveTasks>>
    /\ UNCHANGED <<op, lastSyncResult, autoSync, loyaltyStats, mirrorP, mirrorL,
                   remote>>
    /\ UNCHANGED clientVars

\* POST /api/sync/cron/start
SetupCronJob ==
    /\ cronJob' = CronAfterSetup.job
    /\ liveTasks' = CronAfterSetup.live
    /\ UNCHANGED <<isRunning, lastSyncResult, initialized, autoSync, pc, op, ret,
                   frame, productStats, loyaltyStats, mirrorP, mirrorL, remote>>
    /\ UNCHANGED clientVars


\* stopCronJob() dropping its reference without stopping the task.
StopCronJobLeavesTask ==
    /\ cronJob
    /\ cronJob' = FALSE
    /\ liveTasks' = liveTasks
    /\ UNCHANGED <<isRunning, lastSyncResult, initialized, autoSync, pc, op, ret,
                   frame, productStats, loyaltyStats, mirrorP, mirrorL, remote>>
    /\ UNCHANGED clientVars

\* POST /api/sync/cron/stop
StopCronJob ==
    /\ cronJob
    /\ cronJob' = CronAfterStop.job
    /\ liveTasks' = CronAfterStop.live
    /\ UNCHANGED <<isRunning, lastSyncResult, initialized, autoSync, pc, op, ret,
                   frame, productStats, loyaltyStats, mirrorP, mirrorL, remote>>
    /\ UNCHANGED clientVars

\* cleanup(): stop the cron job, close the pool, clear initialized.
Cleanup ==
    /\ cronJob' = CronAfterStop.job
    /\ liveTasks' = CronAfterStop.live
    /\ initialized' = FALSE
    /\ UNCHANGED <<isRunning, lastSyncResult, autoSync, pc, op, ret, frame,
                   productStats, loyaltyStats, mirrorP, mirrorL, remote>>
    /\ UNCHANGED clientVars

\* The caller has taken the invocation's outcome.
Return(c) ==
    /\ pc[c] = "returned"
    /\ pc' = [pc EXCEPT ![c] = "idle"]
    /\ op' = [op EXCEPT ![c] = "none"]
    /\ ret' = [ret EXCEPT ![c] = NoOutcome]
    /\ UNCHANGED <<isRunning, lastSyncResult, initialized, cronJob, liveTasks,
                   autoSync, frame, productStats, loyaltyStats, mirrorP, mirrorL,
                   remote>>
    /\ UNCHANGED clientVars

(* ------------------------------------------------------------------ *)
(* ProductSyncService.syncAllProducts                                  *)
(* ------------------------------------------------------------------ *)

\* A full pass that gives up when the product reconciliation failed.
ProductsReturnAborts(c, r) ==
    IF op[c] = "syncProducts" \/ ~r.success
    THEN /\ isRunning' = FALSE
         /\ Finish(c, Outcome("object", r.success, "", r, NullSub))
         /\ UNCHANGED loyaltyStats
    ELSE /\ loyaltyStats' = ZeroStats
         /\ pc' = [pc EXCEPT ![c] = "l_fetch"]
         /\ frame' = [frame EXCEPT ![c] = [EmptyFrame EXCEPT !.products = r]]
         /\ UNCHANGED <<isRunning, ret>>

\* syncAllProducts has returned r to the orchestrator.  runFullSync goes
\* on to syncAllLoyaltyPrograms (which resets its stats and awaits the
\* fetch); syncProducts returns r and releases the guard in its finally.
ProductsReturn(c, r) ==
    IF op[c] = "syncProducts"
    THEN /\ isRunning' = FALSE
         /\ Finish(c, Outcome("object", r.success, "", r, NullSub))
         /\ UNCHANGED loyaltyStats
    ELSE /\ loyaltyStats' = ZeroStats
         /\ pc' = [pc EXCEPT ![c] = "l_fetch"]
         /\ frame' = [frame EXCEPT ![c] = [EmptyFrame EXCEPT !.products = r]]
         /\ UNCHANGED <<isRunning, ret>>

\* GET /api/products/all?limit=&offset= as the remote system answers it: the
\* slice of its product list, and has_more while the list goes on.
ProductPage(products, offset) ==
    SubSeq(products, offset + 1,
           IF offset + limit < Len(products) THEN offset + limit ELSE Len(products))

HasMore(products, offset) == offset + limit < Len(products)


\* getAllProducts swallowing a failed page: the loop ends and the pages
\* fetched so far are returned as the whole list.
ProductsFetchedSwallows(c) ==
    /\ pc[c] = "p_fetch"
    /\ \E fetched \in BOOLEAN :
          IF fetched
          THEN /\ frame' = [frame EXCEPT
                               ![c].odooProducts = @ \o ProductPage(remote.products, frame[c].offset),
                               ![c].offset = @ + limit]
               /\ pc' = [pc EXCEPT ![c] = IF HasMore(remote.products, frame[c].offset)
                                          THEN "p_fetch" ELSE "p_load"]
               /\ UNCHANGED <<isRunning, ret, loyaltyStats>>
          ELSE /\ pc' = [pc EXCEPT ![c] = "p_load"]
               /\ UNCHANGED <<frame, isRunning, ret, loyaltyStats>>
    /\ UNCHANGED <<op, lastSyncResult, initialized, cronJob, liveTasks, autoSync,
                   productStats, mirrorP, mirrorL, remote>>
    /\ UNCHANGED clientVars


\* getAllProducts leaving its loop after the first page whatever has_more
\* says.
ProductsFetchedOnePage(c) ==
    /\ pc[c] = "p_fetch"
    /\ \E fetched \in BOOLEAN :
          IF fetched
          THEN /\ frame' = [frame EXCEPT
                               ![c].odooProducts = @ \o ProductPage(remote.products, frame[c].offset),
                               ![c].offset = @ + limit]
               /\ pc' = [pc EXCEPT ![c] = "p_load"]
               /\ UNCHANGED <<isRunning, ret, loyaltyStats>>
          ELSE ProductsReturn(c, SubResult(FALSE, productStats))
    /\ UNCHANGED <<op, lastSyncResult, initialized, cronJob, liveTasks, autoSync,
                   productStats, mirrorP, mirrorL, remote>>
    /\ UNCHANGED clientVars

\* One turn of the while loop of odooApi.getAllProducts(): the page request
\* settled.  A page is appended and, with has_more, the next one requested;
\* a throw or a non-success status leaves syncAllProducts through its catch
\* as {success: false}.
ProductsFetched(c) ==
    /\ pc[c] = "p_fetch"
    /\ \E fetched \in BOOLEAN :
          IF fetched
          THEN /\ frame' = [frame EXCEPT
                               ![c].odooProducts = @ \o ProductPage(remote.products, frame[c].offset),
                               ![c].offset = @ + limit]
               /\ pc' = [pc EXCEPT ![c] = IF HasMore(remote.products, frame[c].offset)
                                          THEN "p_fetch" ELSE "p_load"]
               /\ UNCHANGED <<isRunning, ret, loyaltyStats>>
          ELSE ProductsReturn(c, SubResult(FALSE, productStats))
    /\ UNCHANGED <<op, lastSyncResult, initialized, cronJob, liveTasks, autoSync,
                   productStats, mirrorP, mirrorL, remote>>
    /\ UNCHANGED clientVars


\* A mirror write that removes the rows of products the remote list no
\* longer holds.
InsertProductPrunes(product, stored) ==
    /\ IF stored /\ ~(\E r \in mirrorP : r.id = product.id)
       THEN /\ mirrorP' = {r \in mirrorP :
                              \E k \in 1..Len(remote.products) :
                                  transformOdooProduct(remote.products[k]).id = r.id}
                          \cup {ProductRow(product, product.id)}
            /\ productStats' = Bump(productStats, "created")
       ELSE /\ mirrorP' = mirrorP
            /\ productStats' = Bump(productStats, "errors")

\* loadLocalProducts(): SELECT * FROM products, indexed by id (rows with a
\* falsy id are not indexed).
loadLocalProducts(rows) == {r \in rows : Truthy(r.id)}

ProductsLoaded(c) ==
    /\ pc[c] = "p_load"
    /\ \E loaded \in BOOLEAN :
          IF loaded
          THEN /\ frame' = [frame EXCEPT ![c].localProductsMap = loadLocalProducts(mirrorP),
                                         ![c].i = 1]
               /\ pc' = [pc EXCEPT ![c] = "p_loop"]
               /\ UNCHANGED <<isRunning, ret, loyaltyStats>>
          ELSE ProductsReturn(c, SubResult(FALSE, productStats))
    /\ UNCHANGED <<op, lastSyncResult, initialized, cronJob, liveTasks, autoSync,
                   productStats, mirrorP, mirrorL, remote>>
    /\ UNCHANGED clientVars

\* localProductsMap.get(id): the rows indexed under id (at most one).
ProductsAt(map, id) == {r \in map : r.id = id}

\* A loop body that rewrites every row it finds, changed or not.
ProductDecisionRewrites(product, map) ==
    IF ~Truthy(product.id) THEN "skip"
    ELSE IF ~Truthy(product.template_id) THEN "skip"
    ELSE IF ProductsAt(map, product.id) # {} THEN "update"
    ELSE "create"

\* The decision the loop body takes for one transformed product.
ProductDecision(product, map) ==
    IF ~Truthy(product.id) THEN "skip"
    ELSE IF ~Truthy(product.template_id) THEN "skip"
    ELSE IF ProductsAt(map, product.id) # {}
         THEN IF ProductHasChanges(product, CHOOSE r \in ProductsAt(map, product.id) : TRUE)
              THEN "update" ELSE "unchanged"
    ELSE "create"


\* createProduct with its catch block counting a failed INSERT twice.
InsertProductCountsTwice(product, stored) ==
    /\ IF stored /\ ~(\E r \in mirrorP : r.id = product.id)
       THEN /\ mirrorP' = mirrorP \cup {ProductRow(product, product.id)}
            /\ productStats' = Bump(productStats, "created")
       ELSE /\ mirrorP' = mirrorP
            /\ productStats' = Bump(Bump(productStats, "errors"), "errors")

\* INSERT INTO products: refused by the primary key when a row with the id
\* exists, else subject to the store's own failures.
InsertProduct(product, stored) ==
    /\ IF stored
       THEN /\ mirrorP' = mirrorP \cup {ProductRow(product, product.id)}
            /\ productStats' = Bump(productStats, "created")
       ELSE /\ mirrorP' = mirrorP
            /\ productStats' = Bump(productStats, "errors")

\* UPDATE products SET ... WHERE id = existingId
UpdateProduct(product, existingId, stored) ==
    /\ IF stored
       THEN /\ mirrorP' = {IF r.id = existingId THEN ProductRow(product, existingId) ELSE r :
                             r \in mirrorP}
            /\ productStats' = Bump(productStats, "updated")
       ELSE /\ mirrorP' = mirrorP
            /\ productStats' = Bump(productStats, "errors")

\* One iteration of the for loop of syncAllProducts.
ProductStep(c) ==
    /\ pc[c] = "p_loop"
    /\ frame[c].i <= Len(frame[c].odooProducts)
    /\ \E product \in {transformOdooProduct(frame[c].odooProducts[frame[c].i])} :
       \E decision \in {ProductDecision(product, frame[c].localProductsMap)} :
           CASE decision = "skip" ->
                    /\ productStats' = Bump(productStats, "skipped")
                    /\ UNCHANGED mirrorP
             [] decision = "unchanged" ->
                    /\ productStats' = Bump(productStats, "unchanged")
                    /\ UNCHANGED mirrorP
             [] decision = "update" ->
                    \E stored \in BOOLEAN :
                        UpdateProduct(product,
                            (CHOOSE r \in ProductsAt(frame[c].localProductsMap,
                                                     product.id) : TRUE).id,
                            stored)
             [] decision = "create" ->
                    \E stored \in IF ProductsAt(mirrorP, product.id) # {}
                                  THEN {FALSE} ELSE BOOLEAN :
                        InsertProduct(product, stored)
    /\ frame' = [frame EXCEPT ![c].i = @ + 1]
    /\ UNCHANGED <<isRunning, lastSyncResult, initialized, cronJob, liveTasks,
                   autoSync, pc, op, ret, loyaltyStats, mirrorL, remote>>
    /\ UNCHANGED clientVars


\* syncAllProducts returning from inside its loop, with products left.
ProductsDoneEarly(c) ==
    /\ pc[c] = "p_loop"
    /\ ProductsReturn(c, SubResult(TRUE, productStats))
    /\ UNCHANGED <<op, lastSyncResult, initialized, cronJob, liveTasks, autoSync,
                   productStats, mirrorP, mirrorL, remote>>
    /\ UNCHANGED clientVars

\* The loop is over: syncAllProducts returns {success: true, stats}.
ProductsDone(c) ==
    /\ pc[c] = "p_loop"
    /\ frame[c].i > Len(frame[c].odooProducts)
    /\ ProductsReturn(c, SubResult(TRUE, productStats))
    /\ UNCHANGED <<op, lastSyncResult, initialized, cronJob, liveTasks, autoSync,
                   productStats, mirrorP, mirrorL, remote>>
    /\ UNCHANGED clientVars

(* ------------------------------------------------------------------ *)
(* LoyaltySyncService.syncAllLoyaltyPrograms                           *)
(* ------------------------------------------------------------------ *)

\* A runFullSync that lets a failed loyalty reconciliation out as a throw.
LoyaltyReturnRethrows(c, r) ==
    LET results == Outcome("object", FullSyncSuccess(frame[c].products, r), "",
                           frame[c].products, r)
        startup == op[c] = "initialize"
    IN  /\ lastSyncResult' = IF r.success THEN results ELSE lastSyncResult
        /\ isRunning' = FALSE
        /\ Finish(c, IF ~r.success THEN Thrown("Loyalty sync failed")
                     ELSE IF startup THEN Void ELSE results)
        /\ cronJob' = IF startup /\ autoSync THEN CronAfterSetup.job ELSE cronJob
        /\ liveTasks' = IF startup /\ autoSync THEN CronAfterSetup.live ELSE liveTasks


\* The end of runFullSync keeping the result of the first pass once one is
\* stored.
LoyaltyReturnKeepsFirst(c, r) ==
    LET results == Outcome("object", FullSyncSuccess(frame[c].products, r), "",
                           frame[c].products, r)
        startup == op[c] = "initialize"
    IN  /\ lastSyncResult' = IF lastSyncResult.kind = "none" THEN results
                             ELSE lastSyncResult
        /\ isRunning' = FALSE
        /\ Finish(c, IF startup THEN Void ELSE results)
        /\ cronJob' = IF startup /\ autoSync THEN CronAfterSetup.job ELSE cronJob
        /\ liveTasks' = IF startup /\ autoSync THEN CronAfterSetup.live ELSE liveTasks

\* syncAllLoyaltyPrograms has returned r: runFullSync records the result,
\* releases the guard in its finally and returns; initialize, resumed,
\* sets the cron job up when AUTO_SYNC_ENABLED and returns.
LoyaltyReturn(c, r) ==
    LET results == Outcome("object", FullSyncSuccess(frame[c].products, r), "",
                           frame[c].products, r)
        startup == op[c] = "initialize"
    IN  /\ lastSyncResult' = results
        /\ isRunning' = FALSE
        /\ Finish(c, IF startup THEN Void ELSE results)
        /\ cronJob' = IF startup /\ autoSync THEN CronAfterSetup.job ELSE cronJob
        /\ liveTasks' = IF startup /\ autoSync THEN CronAfterSetup.live ELSE liveTasks

\* odooApi.getAllLoyaltyPrograms() settled: an envelope with status
\* success, whose rows are grouped and type-filtered at once; or a throw or
\* another status, which the catch turns into {success: false}.
LoyaltyFetched(c) ==
    /\ pc[c] = "l_fetch"
    /\ \E fetched \in BOOLEAN :
          IF fetched
          THEN LET allGroups == groupByProgram(remote.loyalty)
               IN  /\ frame' = [frame EXCEPT ![c].groups = filterProgramTypes(allGroups)]
                   /\ loyaltyStats' = [loyaltyStats EXCEPT
                                         !.filtered = @ + FilteredCount(allGroups)]
                   /\ pc' = [pc EXCEPT ![c] = "l_load"]
                   /\ UNCHANGED <<isRunning, ret, lastSyncResult, cronJob, liveTasks>>
          ELSE /\ LoyaltyReturn(c, SubResult(FALSE, loyaltyStats))
               /\ UNCHANGED loyaltyStats
    /\ UNCHANGED <<op, initialized, autoSync, productStats, mirrorP, mirrorL,
                   remote>>
    /\ UNCHANGED clientVars

\* loadLocalLoyaltyPrograms(): SELECT * FROM loyalty_programs as loaded; the
\* Map it builds is read through ProgramAt.
LoyaltyLoaded(c) ==
    /\ pc[c] = "l_load"
    /\ \E loaded \in BOOLEAN :
          IF loaded
          THEN /\ frame' = [frame EXCEPT ![c].localProgramsMap = mirrorL, ![c].i = 1]
               /\ pc' = [pc EXCEPT ![c] = "l_loop"]
               /\ UNCHANGED <<isRunning, ret, lastSyncResult, cronJob, liveTasks>>
          ELSE LoyaltyReturn(c, SubResult(FALSE, loyaltyStats))
    /\ UNCHANGED <<op, initialized, autoSync, productStats, loyaltyStats, mirrorP,
                   mirrorL, remote>>
    /\ UNCHANGED clientVars

\* A snapshot lookup that never finds a row.
ProgramAtNever(rows, key) == {}

\* localProgramsMap.get(key): of the loaded rows with a truthy
\* odoo_program_id equal to key, the last one (a later programMap.set
\* overwrites an earlier one); {} when there is none.
ProgramAt(rows, key) ==
    LET at == {k \in 1..Len(rows) :
                  Truthy(rows[k].odoo_program_id) /\ rows[k].odoo_program_id = key}
    IN  IF at = {} THEN {} ELSE {rows[CHOOSE k \in at : \A j \in at : j <= k]}

\* The decision the loop body takes for one transformed program.
LoyaltyDecision(program, rows) ==
    IF ~Truthy(program.odoo_program_id) THEN "skip"
    ELSE IF ProgramAt(rows, program.odoo_program_id) # {}
         THEN IF LoyaltyHasChanges(program,
                     CHOOSE r \in ProgramAt(rows, program.odoo_program_id) : TRUE)
              THEN "update" ELSE "unchanged"
    ELSE "create"

\* INSERT INTO loyalty_programs: the row gets the next row id.
InsertLoyalty(program, stored) ==
    /\ IF stored
       THEN /\ mirrorL' = Append(mirrorL, LoyaltyRow(program, Len(mirrorL) + 1))
            /\ loyaltyStats' = Bump(loyaltyStats, "created")
       ELSE /\ mirrorL' = mirrorL
            /\ loyaltyStats' = Bump(loyaltyStats, "errors")

\* UPDATE loyalty_programs SET ... WHERE id = existingId
UpdateLoyalty(program, existingId, stored) ==
    /\ IF stored
       THEN /\ mirrorL' = [mirrorL EXCEPT ![existingId] = LoyaltyRow(program, existingId)]
            /\ loyaltyStats' = Bump(loyaltyStats, "updated")
       ELSE /\ mirrorL' = mirrorL
            /\ loyaltyStats' = Bump(loyaltyStats, "errors")

\* One iteration of the for loop of syncAllLoyaltyPrograms.
LoyaltyStep(c) ==
    /\ pc[c] = "l_loop"
    /\ frame[c].i <= Len(frame[c].groups)
    /\ \E program \in {transformGroupedProgram(frame[c].groups[frame[c].i])} :
       \E decision \in {LoyaltyDecision(program, frame[c].localProgramsMap)} :
           CASE decision = "skip" ->
                    /\ loyaltyStats' = Bump(loyaltyStats, "skipped")
                    /\ UNCHANGED mirrorL
             [] decision = "unchanged" ->
                    /\ loyaltyStats' = Bump(loyaltyStats, "unchanged")
                    /\ UNCHANGED mirrorL
             [] decision = "update" ->
                    \E stored \in BOOLEAN :
                        UpdateLoyalty(program,
                            (CHOOSE r \in ProgramAt(frame[c].localProgramsMap,
                                                    program.odoo_program_id) : TRUE).id,
                            stored)
             [] decision = "create" ->
                    \E stored \in BOOLEAN : InsertLoyalty(program, stored)
    /\ frame' = [frame EXCEPT ![c].i = @ + 1]
    /\ UNCHANGED <<isRunning, lastSyncResult, initialized, cronJob, liveTasks,
                   autoSync, pc, op, ret, productStats, mirrorP, remote>>
    /\ UNCHANGED clientVars

\* The loop is over: syncAllLoyaltyPrograms returns {success: true, stats}.
LoyaltyDone(c) ==
    /\ pc[c] = "l_loop"
    /\ frame[c].i > Len(frame[c].groups)
    /\ LoyaltyReturn(c, SubResult(TRUE, loyaltyStats))
    /\ UNCHANGED <<op, initialized, autoSync, productStats, loyaltyStats, mirrorP,
                   mirrorL, remote>>
    /\ UNCHANGED clientVars

(* ------------------------------------------------------------------ *)
(* Specifications                                                      *)
(* ------------------------------------------------------------------ *)

\* The step an invocation takes once what it awaits has settled.
Resume(c) ==
    \/ InitDbTested(c)
    \/ InitOdooTested(c)
    \/ SyncLoyaltyThrows(c)
    \/ ProductsFetched(c)
    \/ ProductsLoaded(c)
    \/ ProductStep(c)
    \/ ProductsDone(c)
    \/ LoyaltyFetched(c)
    \/ LoyaltyLoaded(c)
    \/ LoyaltyStep(c)
    \/ LoyaltyDone(c)

Next ==
    \/ \E c \in Callers :
          \/ RunFullSync(c)
          \/ CronTick(c)
          \/ SyncProducts(c)
          \/ SyncLoyalty(c)
          \/ Initialize(c)
          \/ Resume(c)
          \/ Return(c)
    \/ SetupCronJob
    \/ StopCronJob
    \/ Cleanup

\* The orchestrator with every trigger, over one small remote dataset.
Spec == Init /\ [][Next]_vars

\* A deployment with AUTO_SYNC_ENABLED=true in which the cron job is only
\* ever set up by initialize, and every awaited remote call and mirror
\* query eventually settles.
InitFair == Init /\ autoSync

NextFair ==
    \E c \in Callers :
        \/ RunFullSync(c)
        \/ CronTick(c)
        \/ SyncProducts(c)
        \/ SyncLoyalty(c)
        \/ Initialize(c)
        \/ Resume(c)
        \/ Return(c)

FairSpec == InitFair /\ [][NextFair]_vars /\ \A c \in Callers : WF_vars(Resume(c))

NextRecon ==
    \/ RunFullSync(1)
    \/ ProductsFetched(1)
    \/ ProductsLoaded(1)
    \/ ProductStep(1)
    \/ ProductsDone(1)
    \/ LoyaltyFetched(1)
    \/ LoyaltyLoaded(1)
    \/ LoyaltyStep(1)
    \/ LoyaltyDone(1)
    \/ Return(1)

\* The two reconcilers under repeated full passes, one at a time, each
\* behaviour over one unchanging remote dataset of the catalogue.
SpecRecon == InitRecon /\ [][NextRecon]_vars

\* The two reconcilers over a stored program whose id lists are in any
\* order, with duplicates and empty segments.
SpecIds == InitIds /\ [][NextRecon]_vars

(* ------------------------------------------------------------------ *)
(* Properties of the orchestrator                                      *)
(* ------------------------------------------------------------------ *)

\* Invocation c has taken the guard and not yet released it.
InPass(c) ==
    pc[c] \in {"p_fetch", "p_load", "p_loop", "l_fetch", "l_load", "l_loop", "l_only"}

\* Invocation c is a full pass: runFullSync called by a route, by the
\* cron callback or by initialize.
FullPass(c) == op[c] \in {"runFullSync", "cron", "initialize"}

\* C1: in every reachable state, whatever the interleaving of cron ticks,
\* manual runFullSync, syncProducts and syncLoyalty calls and the startup
\* sync of initialize, at most one reconciliation pass is between taking
\* the isRunning guard and releasing it, and isRunning is set exactly
\* while there is one.
C1_SingleFlight ==
    /\ Cardinality({c \in Callers : InPass(c)}) <= 1
    /\ isRunning <=> (\E c \in Callers : InPass(c))

\* The startup sync of initialize is in flight and a cron tick has just
\* been turned away by the guard.
C1_Witness ==
    \E c, d \in Callers :
        /\ c # d
        /\ op[c] = "initialize" /\ InPass(c)
        /\ op[d] = "cron" /\ pc[d] = "returned" /\ ~ret[d].success

\* Invocation c calls runFullSync (from a route or from the cron
\* callback) in this step, and a pass is running.
TriggerWhileRunning(c) ==
    /\ isRunning
    /\ pc[c] = "idle"
    /\ op'[c] \in {"runFullSync", "cron"}

\* C2: a runFullSync trigger (cron or manual) that arrives while a pass is
\* running returns success=false in the same step and changes nothing:
\* isRunning stays true, lastSyncResult, both reconcilers' counters, both
\* mirror tables and the cron job are as before, no reconciler is entered,
\* and the position, locals and result of every other invocation (the pass
\* in flight among them) are untouched.
C2_RejectedChangesNothing ==
    [][\A c \in Callers :
          TriggerWhileRunning(c) =>
              /\ pc'[c] = "returned"
              /\ ret'[c].kind = "object" /\ ret'[c].success = FALSE
              /\ isRunning'
              /\ UNCHANGED <<lastSyncResult, productStats, loyaltyStats, mirrorP,
                             mirrorL, cronJob, liveTasks, initialized, remote>>
              /\ \A d \in Callers \ {c} :
                    /\ pc'[d] = pc[d]
                    /\ frame'[d] = frame[d]
                    /\ ret'[d] = ret[d]]_vars

\* A manual runFullSync has been turned away while the pass in flight is in
\* its product loop with a product already counted.
C2_Witness ==
    \E c, d \in Callers :
        /\ c # d
        /\ op[c] = "runFullSync" /\ pc[c] = "returned" /\ ret[c] = Handed(RejectedFull)
        /\ pc[d] = "p_loop" /\ productStats # ZeroStats
        /\ isRunning

\* A trigger that finds the orchestrator idle takes the guard.
AcceptedWhenIdle ==
    \A c \in Callers :
        (/\ ~isRunning
         /\ pc[c] = "idle"
         /\ op'[c] \in {"runFullSync", "cron", "syncProducts", "syncLoyalty"})
            => (isRunning' /\ InPass(c)')

C8_SuccessNeedsBoth ==
    (lastSyncResult.kind = "object" /\ lastSyncResult.success)
        => (lastSyncResult.products.success /\ lastSyncResult.loyalty.success)

\* C9: runFullSync never throws.  A finished call from a route or from the
\* cron callback has handed back an object with a boolean success flag,
\* and the only throw that leaves initialize is the failed database test
\* that precedes its startup sync.
C9_FullSyncNeverThrows ==
    \A c \in Callers :
        pc[c] = "returned" =>
            /\ op[c] \in {"runFullSync", "cron"} =>
                  (ret[c].kind = "object" /\ ret[c].success \in BOOLEAN)
            /\ (op[c] = "initialize" /\ ret[c].kind = "throw") =>
                  ret[c].error = "Failed to connect to MySQL database"

\* A manual runFullSync has returned after both of its reconciliations
\* failed.
C9_Witness ==
    \E c \in Callers :
        /\ op[c] = "runFullSync" /\ pc[c] = "returned"
        /\ ret[c].products.ran /\ ~ret[c].products.success
        /\ ret[c].loyalty.ran /\ ~ret[c].loyalty.success

\* C10: when the product fetch of a full pass fails, the step that takes
\* the failure moves the same pass on to the loyalty reconciler with the
\* guard still held, and every full pass that finishes hands back (or, for
\* the startup sync, records) a result whose loyalty part has run.
C10_LoyaltyRunsAfterProductFailure ==
    [][\A c \in Callers :
          /\ (/\ pc[c] = "p_fetch" /\ FullPass(c)
              /\ pc'[c] \notin {"p_fetch", "p_load"})
                => /\ pc'[c] = "l_fetch"
                   /\ isRunning'
                   /\ frame'[c].products.ran /\ ~frame'[c].products.success
          /\ (InPass(c) /\ FullPass(c) /\ pc'[c] = "returned")
                => /\ lastSyncResult'.loyalty.ran
                   /\ lastSyncResult'.products = frame[c].products]_vars

\* A recorded full pass whose product reconciliation failed before
\* counting anything and whose loyalty reconciliation inserted a program.
C10_Witness ==
    /\ lastSyncResult.kind = "object"
    /\ lastSyncResult.products.ran /\ ~lastSyncResult.products.success
    /\ lastSyncResult.loyalty.success /\ lastSyncResult.loyalty.stats.created = 1

(* ------------------------------------------------------------------ *)
(* Properties of the reconcilers                                       *)
(* ------------------------------------------------------------------ *)

\* The full pass recorded last ran its product (loyalty) reconciliation to
\* the end without a failed write.
PrevProductsClean ==
    /\ lastSyncResult.kind = "object"
    /\ lastSyncResult.products.success
    /\ lastSyncResult.products.stats.errors = 0

PrevLoyaltyClean ==
    /\ lastSyncResult.kind = "object"
    /\ lastSyncResult.loyalty.success
    /\ lastSyncResult.loyalty.stats.errors = 0

\* Invocation c has left the for loop of syncAllProducts
\* (syncAllLoyaltyPrograms) and not yet returned.
AtProductLoopEnd(c) == pc[c] = "p_loop" /\ frame[c].i > Len(frame[c].odooProducts)
AtLoyaltyLoopEnd(c) == pc[c] = "l_loop" /\ frame[c].i > Len(frame[c].groups)

\* C4 (as the specification states it): over a fixed remote product list,
\* a pass that follows a clean pass inserts nothing and updates nothing,
\* leaves the mirror rows as it loaded them, and counts created = 0,
\* updated = 0 and unchanged = remote products minus skipped ones.
C4_ProductIdempotence ==
    \A c \in Callers :
        (PrevProductsClean /\ AtProductLoopEnd(c)) =>
            /\ productStats.created = 0
            /\ productStats.updated = 0
            /\ productStats.unchanged = Len(remote.products) - productStats.skipped
            /\ mirrorP = frame[c].localProductsMap

\* C5 (as the specification states it): over fixed remote loyalty rows, a
\* pass that follows a clean pass inserts nothing and updates nothing,
\* leaves the mirror as it loaded it, and counts created = 0, updated = 0
\* and unchanged = allow-listed groups minus skipped ones.
C5_LoyaltyIdempotence ==
    \A c \in Callers :
        (PrevLoyaltyClean /\ AtLoyaltyLoopEnd(c)) =>
            /\ loyaltyStats.created = 0
            /\ loyaltyStats.updated = 0
            /\ loyaltyStats.unchanged = Len(frame[c].groups) - loyaltyStats.skipped
            /\ mirrorL = frame[c].localProgramsMap

\* The transformed programs of the remote rows, in reconciliation order.
RemotePrograms ==
    LET groups == filterProgramTypes(groupByProgram(remote.loyalty))
    IN  [k \in 1..Len(groups) |-> transformGroupedProgram(groups[k])]

\* C6 (as the specification states it): a mirror row that holds what the
\* writer stores for a transformed remote entity compares as unchanged
\* against that entity, for products and for loyalty programs, whatever
\* the amounts and the representation of the active flag.
C6_FreshRowUnchanged ==
    /\ \A k \in 1..Len(remote.products) :
          \A r \in mirrorP :
              r = ProductRow(transformOdooProduct(remote.products[k]), r.id)
                  => ~ProductHasChanges(transformOdooProduct(remote.products[k]), r)
    /\ \A k \in 1..Len(RemotePrograms) :
          \A j \in 1..Len(mirrorL) :
              mirrorL[j] = LoyaltyRow(RemotePrograms[k], j)
                  => ~LoyaltyHasChanges(RemotePrograms[k], mirrorL[j])

\* Invocation c runs one iteration of the product (loyalty) loop in this
\* step.
ProductIteration(c) == pc[c] = "p_loop" /\ frame'[c].i = frame[c].i + 1
LoyaltyIteration(c) == pc[c] = "l_loop" /\ frame'[c].i = frame[c].i + 1

\* The entity the iteration of invocation c is about.
ProductInHand(c) == transformOdooProduct(frame[c].odooProducts[frame[c].i])
ProgramInHand(c) == transformGroupedProgram(frame[c].groups[frame[c].i])

\* What a step did to the products table and the product counters.
ProductUpdated(product) ==
    /\ productStats' = Bump(productStats, "updated")
    /\ mirrorP' = {IF r.id = product.id THEN ProductRow(product, product.id) ELSE r :
                     r \in mirrorP}
ProductUntouched ==
    /\ productStats' = Bump(productStats, "unchanged")
    /\ mirrorP' = mirrorP
ProductInserted(product) ==
    /\ productStats' = Bump(productStats, "created")
    /\ \E r \in mirrorP' : r.id = product.id /\ mirrorP' = mirrorP \cup {r} /\ r \notin mirrorP
ProductWriteFailed ==
    /\ productStats' = Bump(productStats, "errors")
    /\ mirrorP' = mirrorP

\* What a step did to the loyalty_programs table and the loyalty counters.
LoyaltyUpdated(program, rowId) ==
    /\ loyaltyStats' = Bump(loyaltyStats, "updated")
    /\ Len(mirrorL') = Len(mirrorL)
    /\ \A j \in 1..Len(mirrorL) :
          mirrorL'[j] = IF j = rowId THEN LoyaltyRow(program, rowId) ELSE mirrorL[j]
LoyaltyUntouched ==
    /\ loyaltyStats' = Bump(loyaltyStats, "unchanged")
    /\ mirrorL' = mirrorL
LoyaltyInserted(program) ==
    /\ loyaltyStats' = Bump(loyaltyStats, "created")
    /\ Len(mirrorL') = Len(mirrorL) + 1
    /\ SubSeq(mirrorL', 1, Len(mirrorL)) = mirrorL
    /\ mirrorL'[Len(mirrorL')].odoo_program_id = program.odoo_program_id
LoyaltyWriteFailed ==
    /\ loyaltyStats' = Bump(loyaltyStats, "errors")
    /\ mirrorL' = mirrorL

\* The three actions of an iteration, chosen by the snapshot and by
\* hasChanges; attempted says what a write that fails may do instead.
ProductAction(c, product, attempted) ==
    LET found == ProductsAt(frame[c].localProductsMap, product.id)
    IN  IF found = {} THEN ProductInserted(product) \/ attempted
        ELSE IF ProductHasChanges(product, CHOOSE r \in found : TRUE)
             THEN ProductUpdated(product) \/ attempted
             ELSE ProductUntouched

LoyaltyAction(c, program, attempted) ==
    LET found == ProgramAt(frame[c].localProgramsMap, program.odoo_program_id)
    IN  IF found = {} THEN LoyaltyInserted(program) \/ attempted
        ELSE IF LoyaltyHasChanges(program, CHOOSE r \in found : TRUE)
             THEN LoyaltyUpdated(program, (CHOOSE r \in found : TRUE).id) \/ attempted
             ELSE LoyaltyUntouched

Processed(stats) ==
    stats.created + stats.updated + stats.unchanged + stats.skipped + stats.errors

\* The iteration of invocation c ended in the catch block of its write.
ProductWriteCaught(c) ==
    ProductIteration(c) /\ productStats'.errors = productStats.errors + 1
LoyaltyWriteCaught(c) ==
    LoyaltyIteration(c) /\ loyaltyStats'.errors = loyaltyStats.errors + 1

\* C14: a mirror write that fails is caught inside the loop: errors grows
\* by exactly one and no other counter moves, the mirror is as it was, the
\* invocation stays in the loop with the same list and the same snapshot
\* and moves on to the next entity; every iteration accounts for exactly
\* one entity, and an entity that comes after a failed write still gets
\* the action its id and the snapshot select.
C14_WriteFailureIsContained ==
    [][\A c \in Callers :
          /\ ProductIteration(c) =>
                /\ Processed(productStats') = Processed(productStats) + 1
                /\ productStats'.errors \in {productStats.errors, productStats.errors + 1}
          /\ ProductWriteCaught(c) =>
                /\ ProductWriteFailed
                /\ pc'[c] = "p_loop"
                /\ frame'[c] = [frame[c] EXCEPT !.i = @ + 1]
                /\ isRunning' = isRunning
          /\ (/\ ProductIteration(c)
              /\ productStats.errors > 0
              /\ Truthy(ProductInHand(c).id)
              /\ Truthy(ProductInHand(c).template_id)) =>
                ProductAction(c, ProductInHand(c), ProductWriteFailed)
          /\ LoyaltyIteration(c) =>
                /\ Processed(loyaltyStats') = Processed(loyaltyStats) + 1
                /\ loyaltyStats'.errors \in {loyaltyStats.errors, loyaltyStats.errors + 1}
          /\ LoyaltyWriteCaught(c) =>
                /\ LoyaltyWriteFailed
                /\ pc'[c] = "l_loop"
                /\ frame'[c] = [frame[c] EXCEPT !.i = @ + 1]
                /\ isRunning' = isRunning
          /\ (/\ LoyaltyIteration(c)
              /\ loyaltyStats.errors > 0
              /\ Truthy(ProgramInHand(c).odoo_program_id)) =>
                LoyaltyAction(c, ProgramInHand(c), LoyaltyWriteFailed)]_vars

\* A product pass over two products whose first INSERT failed and whose
\* second INSERT went through.
C14_Witness ==
    \E c \in Callers :
        /\ AtProductLoopEnd(c)
        /\ Len(frame[c].odooProducts) = 2
        /\ productStats.errors = 1 /\ productStats.created = 1
        /\ ~(\E r \in mirrorP :
                r.id = transformOdooProduct(frame[c].odooProducts[1]).id)
        /\ \E r \in mirrorP :
                r.id = transformOdooProduct(frame[c].odooProducts[2]).id


\* The raw remote product the iteration of invocation c is about, and
\* whether it carries an id under either of the two field namings.
RawProductInHand(c) == frame[c].odooProducts[frame[c].i]
HasNoId(data) == IsNullish(data.id) /\ IsNullish(data.product_id)

\* C15: the iteration over a remote product that carries no id counts
\* skipped+1 and nothing else, writes nothing to the products table, gives
\* the product no id, stays in the loop and moves on to the next product.
C15_NoIdIsSkipped ==
    [][\A c \in Callers :
          (ProductIteration(c) /\ HasNoId(RawProductInHand(c))) =>
              /\ IsNullish(ProductInHand(c).id)
              /\ productStats' = Bump(productStats, "skipped")
              /\ mirrorP' = mirrorP
              /\ pc'[c] = "p_loop"
              /\ frame'[c] = [frame[c] EXCEPT !.i = @ + 1]
              /\ isRunning' = isRunning]_vars

\* A product pass that skipped a first product without id and then
\* inserted the second product.
C15_Witness ==
    \E c \in Callers :
        /\ AtProductLoopEnd(c)
        /\ Len(frame[c].odooProducts) = 2
        /\ HasNoId(frame[c].odooProducts[1])
        /\ productStats.skipped = 1 /\ productStats.created = 1
        /\ \E r \in mirrorP :
                r.id = transformOdooProduct(frame[c].odooProducts[2]).id


(* ------------------------------------------------------------------ *)
(* Properties of the grouper and the detectors' normalizations         *)
(* ------------------------------------------------------------------ *)

\* Every order in which the remote can deliver the rows of the list.
Arrangements(rows) ==
    {[i \in 1..Len(rows) |-> rows[p[i]]] :
        p \in {f \in [1..Len(rows) -> 1..Len(rows)] :
                  \A a, b \in 1..Len(rows) : f[a] = f[b] => a = b}}

\* The trigger_product_ids the program programId gets from the rows.
TriggerIdsOf(rows, programId) ==
    LET groups == groupByProgram(rows)
    IN  transformGroupedProgram(
            groups[CHOOSE i \in GroupIndex(groups, programId) : TRUE]
        ).trigger_product_ids

\* The member ids of all the rows that carry programId.
MembersOf(rows, programId) ==
    UNION {SeqRange(RowMemberIds(rows[i])) :
              i \in {k \in 1..Len(rows) : rows[k].program_id = programId}}

\* C16: in whatever order the remote delivers its loyalty rows, the rows
\* sharing a program_id yield the same trigger_product_ids: the member ids
\* of all of them, each once, in ascending order.
C16_TriggerIdsOrderFree ==
    \A rows \in Arrangements(remote.loyalty) :
        \A k \in 1..Len(rows) :
            Truthy(rows[k].program_id) =>
                TriggerIdsOf(rows, rows[k].program_id)
                    = IdsStr(SortAsc(MembersOf(remote.loyalty, rows[k].program_id)))

\* The remote delivered the row with member 9 before the row with member
\* 7 of one program, the grouper collected them in that order, and the
\* stored program holds "7,9".
C16_Witness ==
    \E c \in Callers :
        /\ pc[c] = "l_loop"
        /\ Len(frame[c].groups) = 1
        /\ frame[c].groups[1].product_ids = <<9, 7>>
        /\ Len(remote.loyalty) = 2
        /\ remote.loyalty[1].program_id = remote.loyalty[2].program_id
        /\ \E j \in 1..Len(mirrorL) : mirrorL[j].trigger_product_ids = IdsStr(<<7, 9>>)


\* The two reconcilers under repeated full passes over a remote dataset
\* whose active flags come in every form the detectors tell apart.
SpecFlags == InitFlags /\ [][NextRecon]_vars

\* C17: the product detector and the loyalty detector normalize an active
\* flag alike: true, 1, "1" and "true" to 1, false, 0, "0" and "false" to
\* 0, and a missing value (undefined or null) to 1.
C17_ActiveNormalization ==
    \A v \in {remote.products[k].active : k \in 1..Len(remote.products)}
             \cup {remote.loyalty[k].active : k \in 1..Len(remote.loyalty)} :
        /\ v \in ActiveForms \cup AbsentForms =>
              normalizeActive(v) = 1 /\ loyaltyNormalizeActive(v) = 1
        /\ v \in InactiveForms =>
              normalizeActive(v) = 0 /\ loyaltyNormalizeActive(v) = 0
        /\ normalizeActive(v) = loyaltyNormalizeActive(v)

\* A second product pass compared a remote product whose active flag is
\* null with its stored row (stored as 1) and found nothing to rewrite.
C17_Witness ==
    \E c \in Callers :
        /\ AtProductLoopEnd(c)
        /\ Len(frame[c].odooProducts) = 1
        /\ frame[c].odooProducts[1].active = Null
        /\ frame[c].localProductsMap # {}
        /\ productStats.unchanged = 1


(* ------------------------------------------------------------------ *)
(* The mirror under a remote that changes between passes               *)
(* ------------------------------------------------------------------ *)

\* The remote system replaces its dataset while no pass is in flight.
RemoteChange ==
    /\ pc[1] = "idle"
    /\ remote' \in ChurnWorlds \ {remote}
    /\ UNCHANGED <<isRunning, lastSyncResult, initialized, cronJob, liveTasks,
                   autoSync, pc, op, ret, frame, productStats, loyaltyStats,
                   mirrorP, mirrorL>>
    /\ UNCHANGED clientVars

NextChurn ==
    \/ RunFullSync(1)
    \/ ProductsFetched(1)
    \/ ProductsLoaded(1)
    \/ ProductStep(1)
    \/ ProductsDone(1)
    \/ LoyaltyFetched(1)
    \/ LoyaltyLoaded(1)
    \/ LoyaltyStep(1)
    \/ LoyaltyDone(1)
    \/ Return(1)
    \/ RemoteChange

\* Repeated full passes, one at a time, over a remote dataset that is
\* replaced between passes.
SpecChurn == InitChurn /\ [][NextChurn]_vars

\* The ids of the remote entities invocation c fetched for its pass.
SnapshotProductIds(c) ==
    {transformOdooProduct(frame[c].odooProducts[k]).id :
        k \in 1..Len(frame[c].odooProducts)}
SnapshotProgramIds(c) ==
    {transformGroupedProgram(frame[c].groups[k]).odoo_program_id :
        k \in 1..Len(frame[c].groups)}

\* C18: no step removes a mirror row: the ids of the products table and of
\* the loyalty_programs table only grow, and a row that a step rewrites is
\* the row of an entity of the list the running pass fetched, so a row
\* whose id the fetched list lacks stays exactly as it was.
C18_MirrorOnlyGrows ==
    [][/\ \A r \in mirrorP :
             /\ \E r2 \in mirrorP' : r2.id = r.id
             /\ r \notin mirrorP' =>
                   \E c \in Callers :
                       ProductIteration(c) /\ r.id \in SnapshotProductIds(c)
       /\ Len(mirrorL') >= Len(mirrorL)
       /\ \A j \in 1..Len(mirrorL) :
             /\ mirrorL'[j].id = mirrorL[j].id
             /\ mirrorL'[j].odoo_program_id = mirrorL[j].odoo_program_id
             /\ mirrorL'[j] # mirrorL[j] =>
                   \E c \in Callers :
                       /\ LoyaltyIteration(c)
                       /\ mirrorL[j].odoo_program_id \in SnapshotProgramIds(c)]_vars

\* A pass over a remote list that no longer holds product 2 and program
\* 501 has run its loops, rewritten product 1, and the rows of product 2
\* and program 501 are still in the mirror.
C18_Witness ==
    \E c \in Callers :
        /\ AtLoyaltyLoopEnd(c)
        /\ productStats.updated = 1
        /\ Whole(2) \notin {transformOdooProduct(remote.products[k]).id :
                               k \in 1..Len(remote.products)}
        /\ \E r \in mirrorP : r.id = Whole(2)
        /\ Whole(501) \notin SnapshotProgramIds(c)
        /\ \E j \in 1..Len(mirrorL) : mirrorL[j].odoo_program_id = Whole(501)


(* ------------------------------------------------------------------ *)
(* Properties of the fetch phase                                       *)
(* ------------------------------------------------------------------ *)

\* C19: a reconciler goes on to load the mirror only with the whole remote
\* dataset in hand; a fetch that fails, on the first page or on a later
\* one, ends the reconciler with success = false, with no entity counted
\* and with its table as the pass found it.
C19_FailedFetchWritesNothing ==
    [][\A c \in Callers :
          /\ (pc[c] = "p_fetch" /\ pc'[c] = "p_load") =>
                frame'[c].odooProducts = remote.products
          /\ (pc[c] = "p_fetch" /\ pc'[c] \notin {"p_fetch", "p_load"}) =>
                /\ pc'[c] = "l_fetch"
                /\ frame'[c].products = SubResult(FALSE, ZeroStats)
                /\ productStats = ZeroStats
                /\ mirrorP' = mirrorP
          /\ (pc[c] = "l_fetch" /\ pc'[c] = "l_load") =>
                frame'[c].groups = filterProgramTypes(groupByProgram(remote.loyalty))
          /\ (pc[c] = "l_fetch" /\ pc'[c] # "l_load") =>
                /\ pc'[c] = "returned"
                /\ lastSyncResult'.loyalty = SubResult(FALSE, ZeroStats)
                /\ loyaltyStats = ZeroStats
                /\ mirrorL' = mirrorL]_vars

\* A pass over a remote list of two pages has left its product reconciler
\* with success = false, and the products table, filled by an earlier pass,
\* still holds both rows.
C19_Witness ==
    \E c \in Callers :
        /\ pc[c] = "l_fetch"
        /\ ~frame[c].products.success
        /\ Len(remote.products) = 2
        /\ productStats = ZeroStats
        /\ \A k \in 1..2 :
              \E r \in mirrorP : r.id = transformOdooProduct(remote.products[k]).id


\* C20: getAllProducts starts at offset 0 with an empty list; each page it
\* receives is the page at the current offset, is appended to the list, and
\* moves the offset on by limit; the loop ends exactly on the first page
\* whose has_more is false, with the concatenation of the pages, which is
\* the whole remote list, and the offset never moves once the loop is over.
C20_PagesInOrder ==
    [][\A c \in Callers :
          /\ (pc[c] # "p_fetch" /\ pc'[c] = "p_fetch") =>
                frame'[c].offset = 0 /\ frame'[c].odooProducts = <<>>
          /\ (pc[c] = "p_fetch" /\ pc'[c] \in {"p_fetch", "p_load"}
                                /\ frame'[c] # frame[c]) =>
                /\ frame[c].offset = Len(frame[c].odooProducts)
                /\ frame[c].offset % limit = 0
                /\ frame'[c].odooProducts =
                      frame[c].odooProducts \o ProductPage(remote.products, frame[c].offset)
                /\ frame'[c].offset = frame[c].offset + limit
                /\ (pc'[c] = "p_load") <=> ~HasMore(remote.products, frame[c].offset)
                /\ (pc'[c] = "p_load") => frame'[c].odooProducts = remote.products
          /\ (pc[c] # "p_fetch" /\ pc'[c] # "p_fetch") =>
                frame'[c].offset \in {frame[c].offset, 0}]_vars

\* getAllProducts has returned a list of two pages: two requests, at
\* offsets 0 and limit, and the list is the remote one in its order.
C20_Witness ==
    \E c \in Callers :
        /\ pc[c] = "p_load"
        /\ frame[c].offset = 2 * limit
        /\ Len(frame[c].odooProducts) > limit
        /\ frame[c].odooProducts = remote.products
        /\ frame[c].odooProducts[1] # frame[c].odooProducts[Len(frame[c].odooProducts)]


(* ------------------------------------------------------------------ *)
(* odooClient.js: the token cache and odooRequest                      *)
(* ------------------------------------------------------------------ *)

\* What an attempt of the request meets: 200, 401, another HTTP status,
\* or no response before the timeout (0).
Replies == {200, 401, 500, 0}

\* What POST /api/auth/token comes to: a body with a token, a body without
\* one, a 401, or any other failure.
AuthReplies == {"token", "empty", "unauthorized", "failed"}

\* error.response?.status of the error getAuthToken throws.
AuthErrorStatus(answer) == IF answer = "unauthorized" THEN 401 ELSE 0

\* Bookkeeping of one call: a getAuthToken call starts and ends, an
\* attempt of the request is sent and answered, the call returns or
\* throws.
Ask(q, at) ==
    [q EXCEPT !.auths = Append(@, [at |-> at, token |-> 0, status |-> "pending"])]
Answered(q, token, answer) ==
    [q EXCEPT !.auths[Len(q.auths)] = [at |-> @.at, token |-> token, status |-> answer]]
Send(q, token) ==
    [q EXCEPT !.sent = Append(@, [token |-> token, status |-> -1])]
Replied(q, status) ==
    [q EXCEPT !.sent[Len(q.sent)].status = status]
Returns(q) ==
    [q EXCEPT !.pc = "done",
              !.result = [kind |-> "data", status |-> 200, attempt |-> Len(q.sent)]]
Throws(q, status) ==
    [q EXCEPT !.pc = "done",
              !.result = [kind |-> "error", status |-> status, attempt |-> Len(q.sent)]]

\* getAuthToken() once its POST has settled: the value authToken holds
\* afterwards and the number of tokens handed out.
getAuthToken(answer) ==
    CASE answer = "token" -> [authToken |-> issued + 1, issued |-> issued + 1]
      [] answer = "empty" -> [authToken |-> 0, issued |-> issued]
      [] OTHER -> [authToken |-> authToken, issued |-> issued]

\* initialize(): the module-load getAuthToken settles; a failure is logged
\* and swallowed.
BootSettled ==
    /\ rq[Boot].pc = "load"
    /\ \E answer \in AuthReplies :
          /\ authToken' = getAuthToken(answer).authToken
          /\ issued' = getAuthToken(answer).issued
          /\ rq' = [rq EXCEPT ![Boot] =
                       [Answered(@, IF answer = "token" THEN issued + 1 ELSE 0, answer)
                           EXCEPT !.pc = "done"]]
    /\ UNCHANGED serviceVars

\* odooRequest(endpoint) up to its first await: without a cached token it
\* awaits getAuthToken, with one it sends the request.
OdooRequest(r) ==
    /\ rq[r].pc = "idle"
    /\ rq' = [rq EXCEPT ![r] =
                 IF authToken = 0
                 THEN [Ask(@, "try") EXCEPT !.pc = "auth"]
                 ELSE [Send(@, authToken) EXCEPT !.pc = "first"]]
    /\ UNCHANGED <<authToken, issued>>
    /\ UNCHANGED serviceVars

\* The getAuthToken call of the try block settles.  With a token the
\* request is sent; a 401 from the token endpoint is an error with
\* response.status 401 and takes the catch branch of odooRequest like a 401
\* of the request; any other failure is rethrown.
TokenSettled(r) ==
    /\ rq[r].pc = "auth"
    /\ \E answer \in AuthReplies :
          /\ issued' = getAuthToken(answer).issued
          /\ CASE answer = "token" ->
                    /\ authToken' = getAuthToken(answer).authToken
                    /\ rq' = [rq EXCEPT ![r] =
                                 [Send(Answered(@, issued + 1, answer), issued + 1)
                                     EXCEPT !.pc = "first"]]
               [] answer = "unauthorized" ->
                    /\ authToken' = 0
                    /\ rq' = [rq EXCEPT ![r] =
                                 [Ask(Answered(@, 0, answer), "catch")
                                     EXCEPT !.pc = "reauth"]]
               [] OTHER ->
                    /\ authToken' = getAuthToken(answer).authToken
                    /\ rq' = [rq EXCEPT ![r] =
                                 Throws(Answered(@, 0, answer), AuthErrorStatus(answer))]
    /\ UNCHANGED serviceVars


\* The first attempt with a catch block that refreshes the token and
\* retries after any failure.
FirstSettledRetriesAll(r) ==
    /\ rq[r].pc = "first"
    /\ \E status \in Replies :
          CASE status = 200 ->
                  /\ rq' = [rq EXCEPT ![r] = Returns(Replied(@, status))]
                  /\ UNCHANGED authToken
            [] OTHER ->
                  /\ authToken' = 0
                  /\ rq' = [rq EXCEPT ![r] =
                               [Ask(Replied(@, status), "catch") EXCEPT !.pc = "reauth"]]
    /\ UNCHANGED issued
    /\ UNCHANGED serviceVars

\* The first attempt settles: 200 returns response.data; 401 sets
\* authToken = null and awaits getAuthToken; anything else is logged and
\* rethrown.
FirstSettled(r) ==
    /\ rq[r].pc = "first"
    /\ \E status \in Replies :
          CASE status = 200 ->
                  /\ rq' = [rq EXCEPT ![r] = Returns(Replied(@, status))]
                  /\ UNCHANGED authToken
            [] status = 401 ->
                  /\ authToken' = 0
                  /\ rq' = [rq EXCEPT ![r] =
                               [Ask(Replied(@, status), "catch") EXCEPT !.pc = "reauth"]]
            [] OTHER ->
                  /\ rq' = [rq EXCEPT ![r] = Throws(Replied(@, status), status)]
                  /\ UNCHANGED authToken
    /\ UNCHANGED issued
    /\ UNCHANGED serviceVars


\* The catch branch of odooRequest resending the request under the token
\* of the first attempt.
ReauthSettledStaleToken(r) ==
    /\ rq[r].pc = "reauth"
    /\ \E answer \in AuthReplies :
          /\ authToken' = getAuthToken(answer).authToken
          /\ issued' = getAuthToken(answer).issued
          /\ rq' = [rq EXCEPT ![r] =
                       IF answer = "token"
                       THEN [Send(Answered(@, issued + 1, answer),
                                  IF @.sent = <<>> THEN issued + 1 ELSE @.sent[1].token)
                                EXCEPT !.pc = "retry"]
                       ELSE Throws(Answered(@, 0, answer), AuthErrorStatus(answer))]
    /\ UNCHANGED serviceVars

\* The getAuthToken call of the catch branch settles: with a token the
\* request is sent again under it; a failure leaves odooRequest as the
\* error getAuthToken threw.
ReauthSettled(r) ==
    /\ rq[r].pc = "reauth"
    /\ \E answer \in AuthReplies :
          /\ authToken' = getAuthToken(answer).authToken
          /\ issued' = getAuthToken(answer).issued
          /\ rq' = [rq EXCEPT ![r] =
                       IF answer = "token"
                       THEN [Send(Answered(@, issued + 1, answer), issued + 1)
                                EXCEPT !.pc = "retry"]
                       ELSE Throws(Answered(@, 0, answer), AuthErrorStatus(answer))]
    /\ UNCHANGED serviceVars


\* The retry handled like the first attempt: a 401 refreshes the token and
\* sends the request once more.
RetrySettledAgain(r) ==
    /\ rq[r].pc = "retry"
    /\ \E status \in Replies :
          /\ rq' = [rq EXCEPT ![r] =
                       IF status = 200 THEN Returns(Replied(@, status))
                       ELSE IF status = 401
                            THEN [Ask(Replied(@, status), "catch") EXCEPT !.pc = "reauth"]
                            ELSE Throws(Replied(@, status), status)]
          /\ authToken' = IF status = 401 THEN 0 ELSE authToken
    /\ UNCHANGED issued
    /\ UNCHANGED serviceVars

\* The retry settles: 200 returns its response.data; any failure, a 401
\* included, leaves the catch block as thrown.
RetrySettled(r) ==
    /\ rq[r].pc = "retry"
    /\ \E status \in Replies :
          rq' = [rq EXCEPT ![r] =
                    IF status = 200 THEN Returns(Replied(@, status))
                    ELSE Throws(Replied(@, status), status)]
    /\ UNCHANGED <<authToken, issued>>
    /\ UNCHANGED serviceVars

\* The state the client specification starts in: the service idle, the
\* module just loaded.
InitClient == InitCommon /\ ~autoSync /\ remote \in OrchWorlds

NextClient ==
    \/ BootSettled
    \/ \E r \in Requests :
          \/ OdooRequest(r)
          \/ TokenSettled(r)
          \/ FirstSettled(r)
          \/ ReauthSettled(r)
          \/ RetrySettled(r)

\* odooRequest calls running together over the one token cache.
SpecClient == InitClient /\ [][NextClient]_vars


(* ------------------------------------------------------------------ *)
(* Properties of odooRequest                                           *)
(* ------------------------------------------------------------------ *)

\* The getAuthToken calls the call made from its catch branch.
CatchAuths(q) == {k \in 1..Len(q.auths) : q.auths[k].at = "catch"}

\* The statuses the attempts of the call met, in order.
Statuses(q) == [k \in 1..Len(q.sent) |-> q.sent[k].status]

\* C11: a first attempt that meets 401 sets the cached token to null and
\* starts one getAuthToken call, the request not being resent meanwhile;
\* the retry goes out in the step that call completes, under the token it
\* just returned, a token never handed out before; and a call whose first
\* attempt met 401 and whose retry met 200 returns the retry's response,
\* having asked for a token from its catch branch exactly once.
C11_RetryAfterReauth ==
    [][\A r \in Requests :
          /\ (rq[r].pc = "first" /\ rq'[r].sent[1].status = 401) =>
                /\ authToken' = 0
                /\ rq'[r].pc = "reauth"
                /\ Len(rq'[r].sent) = 1
                /\ Cardinality(CatchAuths(rq'[r])) = 1
                /\ rq'[r].auths[Len(rq'[r].auths)].status = "pending"
          /\ (rq[r].pc = "reauth" /\ rq'[r].pc = "retry") =>
                /\ issued' = issued + 1
                /\ authToken' = issued'
                /\ rq'[r].auths[Len(rq'[r].auths)] =
                      [at |-> "catch", token |-> issued', status |-> "token"]
                /\ rq'[r].sent[Len(rq'[r].sent)] = [token |-> issued', status |-> -1]
          /\ (rq[r].pc = "retry" /\ Statuses(rq'[r]) = <<401, 200>>) =>
                /\ rq'[r].pc = "done"
                /\ rq'[r].result = [kind |-> "data", status |-> 200, attempt |-> 2]
                /\ Cardinality(CatchAuths(rq'[r])) = 1
                /\ rq'[r].sent[2].token # rq'[r].sent[1].token
                /\ rq'[r].sent[2].token = rq'[r].auths[Len(rq'[r].auths)].token]_vars

\* A call whose first attempt, sent under a cached token, met 401 and
\* whose retry under a new token returned the data.
C11_Witness ==
    \E r \in Requests :
        /\ rq[r].pc = "done"
        /\ Statuses(rq[r]) = <<401, 200>>
        /\ rq[r].result.kind = "data"
        /\ Len(rq[r].auths) = 1
        /\ rq[r].sent[2].token > rq[r].sent[1].token

\* C12: one odooRequest call sends the request at most twice and asks for
\* a token from its catch branch at most once; when both attempts met 401
\* the call has ended, throwing the retry's 401.
C12_AtMostTwoAttempts ==
    \A r \in Requests :
        /\ Len(rq[r].sent) <= 2
        /\ Cardinality(CatchAuths(rq[r])) <= 1
        /\ Statuses(rq[r]) = <<401, 401>> =>
              /\ rq[r].pc = "done"
              /\ rq[r].result = [kind |-> "error", status |-> 401, attempt |-> 2]

\* A call both of whose attempts met 401.
C12_Witness ==
    \E r \in Requests :
        /\ Statuses(rq[r]) = <<401, 401>>
        /\ rq[r].result.kind = "error"
        /\ Cardinality(CatchAuths(rq[r])) = 1

\* C13: an attempt that fails with anything but 401 (another HTTP status,
\* no response) ends the call with that error: the request is not sent
\* again, getAuthToken is not called, and authToken keeps its value.
C13_OtherFailuresSurface ==
    [][\A r \in Requests :
          (/\ rq[r].pc \in {"first", "retry"}
           /\ rq'[r] # rq[r]
           /\ rq'[r].sent[Len(rq[r].sent)].status \notin {200, 401}) =>
              /\ rq'[r].pc = "done"
              /\ rq'[r].result = [kind |-> "error",
                                  status |-> rq'[r].sent[Len(rq[r].sent)].status,
                                  attempt |-> Len(rq[r].sent)]
              /\ Len(rq'[r].sent) = Len(rq[r].sent)
              /\ rq'[r].auths = rq[r].auths
              /\ authToken' = authToken
              /\ issued' = issued]_vars

\* A call sent under the cached token got no response and threw; the
\* token is still cached and no token was asked for.
C13_Witness ==
    \E r \in Requests :
        /\ rq[r].pc = "done"
        /\ Statuses(rq[r]) = <<0>>
        /\ rq[r].result = [kind |-> "error", status |-> 0, attempt |-> 1]
        /\ rq[r].auths = <<>>
        /\ authToken = rq[r].sent[1].token


(* ------------------------------------------------------------------ *)
(* Properties of the stored result, the counters and the schedule      *)
(* ------------------------------------------------------------------ *)

\* Invocation c leaves a full pass in this step: its loyalty reconciler
\* returns and runFullSync stores and returns the results.
FullPassEnds(c) ==
    pc[c] \in {"l_fetch", "l_load", "l_loop"} /\ pc'[c] = "returned"

\* C21: the step that ends an accepted full pass, with either reconciler
\* failed or not, replaces lastSyncResult by the results of that pass: the
\* product result the pass holds and the loyalty result with the counters
\* of the pass, the object the caller is handed; no other step touches
\* lastSyncResult.
C21_LastSyncIsLatestPass ==
    [][/\ \A c \in Callers :
             FullPassEnds(c) =>
                /\ lastSyncResult'.kind = "object"
                /\ lastSyncResult'.products = frame[c].products
                /\ lastSyncResult'.loyalty.ran
                /\ lastSyncResult'.loyalty.stats = loyaltyStats
                /\ op[c] # "initialize" => ret'[c] = Handed(lastSyncResult')
       /\ lastSyncResult' # lastSyncResult => \E c \in Callers : FullPassEnds(c)]_vars

\* The stored result is that of a pass whose product reconciler failed
\* and whose loyalty reconciler created nothing, while the loyalty table
\* holds the row an earlier pass created.
C21_Witness ==
    /\ \A c \in Callers : pc[c] = "idle"
    /\ lastSyncResult.kind = "object"
    /\ ~lastSyncResult.products.success
    /\ lastSyncResult.loyalty.success
    /\ lastSyncResult.loyalty.stats.created = 0
    /\ mirrorL # <<>>


\* C22: the counters of a reconciler are zero when its pass starts and
\* account for exactly the entities its loop has gone through since, so
\* the stats a completed reconciler returns count the entities of the
\* remote dataset of that pass once each, however many passes ran before.
C22_StatsCountOnePass ==
    /\ \A c \in Callers :
          /\ pc[c] \in {"p_fetch", "p_load"} => productStats = ZeroStats
          /\ pc[c] = "p_loop" =>
                /\ Processed(productStats) = frame[c].i - 1
                /\ productStats.filtered = 0
          /\ pc[c] = "l_fetch" => loyaltyStats = ZeroStats
          /\ pc[c] \in {"l_load", "l_loop"} =>
                /\ Processed(loyaltyStats) = frame[c].i - (IF pc[c] = "l_loop" THEN 1 ELSE 0)
                /\ loyaltyStats.filtered = FilteredCount(groupByProgram(remote.loyalty))
    /\ lastSyncResult.kind = "object" =>
          /\ lastSyncResult.products.success =>
                Processed(lastSyncResult.products.stats) = Len(remote.products)
          /\ lastSyncResult.loyalty.success =>
                Processed(lastSyncResult.loyalty.stats) + lastSyncResult.loyalty.stats.filtered
                    = Len(groupByProgram(remote.loyalty))

\* A later pass has gone through its two products without creating any,
\* after a pass that created both: the counters hold the two entities of
\* this pass only.
C22_Witness ==
    \E c \in Callers :
        /\ AtProductLoopEnd(c)
        /\ Len(frame[c].odooProducts) = 2
        /\ lastSyncResult.kind = "object"
        /\ lastSyncResult.products.stats.created = 2
        /\ productStats.created = 0
        /\ Processed(productStats) = 2


\* A tick of the schedule starts invocation c in this step.
CronStarts(c) == pc[c] = "idle" /\ pc'[c] # "idle" /\ op'[c] = "cron"

\* C23: the orchestrator holds a task exactly while one is scheduled, so
\* a tick fires only between a setupCronJob and the next stopCronJob (or
\* cleanup); dropping the task changes nothing of the invocations in
\* flight, of the guard or of the counters; and a tick goes through
\* runFullSync as a manual trigger does: rejected with the guard's answer
\* while a pass runs, else taking the guard and starting the product
\* reconciler from zeroed counters, and storing and returning its results
\* at the end.
C23_ScheduleSwitch ==
    [][/\ liveTasks' = IF cronJob' THEN 1 ELSE 0
       /\ \A c \in Callers :
             /\ CronStarts(c) =>
                   /\ cronJob
                   /\ IF isRunning
                      THEN /\ pc'[c] = "returned"
                           /\ ret'[c] = RejectedFull
                           /\ isRunning'
                           /\ productStats' = productStats
                      ELSE /\ pc'[c] = "p_fetch"
                           /\ isRunning'
                           /\ productStats' = ZeroStats
             /\ (FullPassEnds(c) /\ op[c] = "cron") =>
                   /\ ~isRunning'
                   /\ ret'[c] = Handed(lastSyncResult')
       /\ (cronJob /\ ~cronJob') =>
             /\ pc' = pc /\ op' = op /\ frame' = frame /\ ret' = ret
             /\ isRunning' = isRunning
             /\ productStats' = productStats /\ loyaltyStats' = loyaltyStats
             /\ mirrorP' = mirrorP /\ mirrorL' = mirrorL
             /\ lastSyncResult' = lastSyncResult]_vars

\* The schedule is off while the pass a tick started is still in its
\* product loop.
C23_Witness ==
    \E c \in Callers :
        /\ op[c] = "cron"
        /\ pc[c] = "p_loop"
        /\ isRunning
        /\ ~cronJob
        /\ liveTasks = 0


\* The positions inside syncAllProducts and inside syncAllLoyaltyPrograms.
InProducts(c) == pc[c] \in {"p_fetch", "p_load", "p_loop"}
InLoyalty(c) == pc[c] \in {"l_fetch", "l_load", "l_loop"}

\* The rows of a table that a step leaves different or new.
ProductRowsWritten == mirrorP' \ mirrorP
LoyaltyRowsWritten ==
    {j \in 1..Len(mirrorL') : j > Len(mirrorL) \/ mirrorL'[j] # mirrorL[j]}

\* C24: a full pass enters its loyalty reconciler only from its product
\* reconciler, with the product result in hand, and from the product loop
\* only when every product has been gone through; the products table is
\* written only by a step of an invocation in its product loop and the
\* loyalty table only by one in its loyalty loop, one row per step at
\* most; and no invocation is inside a reconciler while another one is.
C24_ReconcilersInSequence ==
    [][/\ \A c \in Callers :
             /\ (~InLoyalty(c) /\ pc'[c] = "l_fetch") =>
                   /\ InProducts(c)
                   /\ frame'[c].products.ran
                   /\ pc[c] = "p_loop" =>
                         /\ frame[c].i > Len(frame[c].odooProducts)
                         /\ frame'[c].products = SubResult(TRUE, productStats)
             /\ InLoyalty(c) => mirrorP' = mirrorP
             /\ InProducts(c) => mirrorL' = mirrorL
             /\ \A d \in Callers :
                   (c # d /\ (InProducts(c) \/ InLoyalty(c))) =>
                       ~(InProducts(d) \/ InLoyalty(d))
       /\ mirrorP' # mirrorP =>
             /\ \E c \in Callers : pc[c] = "p_loop" /\ ProductIteration(c)
             /\ Cardinality(ProductRowsWritten) <= 1
       /\ mirrorL' # mirrorL =>
             /\ \E c \in Callers : pc[c] = "l_loop" /\ LoyaltyIteration(c)
             /\ Cardinality(LoyaltyRowsWritten) <= 1]_vars

\* A full pass is in its loyalty loop and has inserted a program, after
\* its product reconciler returned having inserted a product.
C24_Witness ==
    \E c \in Callers :
        /\ pc[c] = "l_loop"
        /\ frame[c].products.success
        /\ frame[c].products.stats.created = 1
        /\ loyaltyStats.created = 1
        /\ mirrorP # {} /\ mirrorL # <<>>


(* ------------------------------------------------------------------ *)
(* Properties of the loyalty rows, flags and comparisons               *)
(* ------------------------------------------------------------------ *)

\* The remote loyalty rows that carry no program_id.
RowsWithoutProgramId ==
    {k \in 1..Len(remote.loyalty) : IsNullish(remote.loyalty[k].program_id)}

\* C25 (as the specification states it): the stats of a completed loyalty
\* reconciler count every remote row that lacks a program_id as skipped.
C25_MissingProgramIdSkipped ==
    (lastSyncResult.kind = "object" /\ lastSyncResult.loyalty.success) =>
        lastSyncResult.loyalty.stats.skipped >= Cardinality(RowsWithoutProgramId)


\* The active flags of the remote loyalty rows of the program a
\* loyalty_programs row was written from.
RemoteFlagOf(row) ==
    {remote.loyalty[k].active :
        k \in {n \in 1..Len(remote.loyalty) :
                  Or(parseInt(remote.loyalty[n].program_id), Null) = row.odoo_program_id}}

\* C26 (as the specification states it): a loyalty_programs row is active
\* when the remote program's active flag is true, 1, "1" or "true" or is
\* missing, and inactive when the flag is false, 0, "0" or "false".
C26_LoyaltyActiveForms ==
    \A j \in 1..Len(mirrorL) :
        \A v \in RemoteFlagOf(mirrorL[j]) :
            /\ v \in ActiveForms \cup {Undefined} => mirrorL[j].active = Whole(1)
            /\ v \in InactiveForms => mirrorL[j].active = Whole(0)


\* The remote products, with both flags, that a products row was written
\* from.
TwoFlagSources(row) ==
    {k \in 1..Len(remote.products) :
        /\ transformOdooProduct(remote.products[k]).id = row.id
        /\ remote.products[k].template_active.t # "undefined"
        /\ remote.products[k].product_active.t # "undefined"}

\* C27 (as the specification states it): the products row of a remote
\* product that carries template_active and product_active is active
\* exactly when both flags are on, whether they come as booleans, as 0/1
\* or as stringified booleans.
C27_BothFlagsNeeded ==
    \A r \in mirrorP :
        \A k \in TwoFlagSources(r) :
            (r.active = Whole(1)) <=>
                (/\ remote.products[k].template_active \in ActiveForms
                 /\ remote.products[k].product_active \in ActiveForms)


\* The product (the products row) with its string-valued fields trimmed.
TrimmedProduct(product) ==
    [product EXCEPT !.name = trim(@), !.description = trim(@),
                    !.barcode = trim(@), !.category = trim(@)]

\* The transformed product and the snapshot row of a loop iteration differ
\* in nothing but leading or trailing whitespace of a string-valued field.
DifferInPaddingOnly(product, row) ==
    ~ProductHasChanges(TrimmedProduct(product), TrimmedProduct(row))

\* C28 (as the specification states it): hasChanges judges a remote
\* product unchanged when its name, description, barcode and category
\* differ from the mirror row's in leading or trailing whitespace only.
C28_StringsComparedTrimmed ==
    \A c \in Callers :
        (pc[c] = "p_loop" /\ frame[c].i <= Len(frame[c].odooProducts)) =>
            \A row \in ProductsAt(frame[c].localProductsMap, ProductInHand(c).id) :
                DifferInPaddingOnly(ProductInHand(c), row) =>
                    ~ProductHasChanges(ProductInHand(c), row)


\* The set of ids a comma-separated id list holds (none for a missing or
\* empty list).
IdSet(v) ==
    IF v.t # "string" THEN {}
    ELSE IF v.l # <<>> THEN {x \in SeqRange(v.l) : IsIdSegment(x)}
    ELSE IF NumericValue(v.s) >= 0 THEN {NumericValue(v.s) \div 1000}
    ELSE {}

IdListFields == {"trigger_product_ids", "reward_product_ids"}

\* The id lists the detector may be handed: every list of IdLists, the
\* empty string among them, and null.
IdStrings == {IdsStr(ids) : ids \in IdLists} \cup {Null}

\* C29: the loyalty detector compares trigger_product_ids and
\* reward_product_ids as sets: against the stored row of the program in
\* hand, the list of the remote program and every other id list registers
\* as a change exactly when the two lists hold different sets of ids,
\* whatever their order, duplicates and empty segments.
C29_IdListsComparedAsSets ==
    \A c \in Callers :
        (pc[c] = "l_loop" /\ frame[c].i <= Len(frame[c].groups)) =>
            \A row \in ProgramAt(frame[c].localProgramsMap, ProgramInHand(c).odoo_program_id) :
                \A field \in IdListFields :
                    \A odooValue \in {ProgramInHand(c)[field]} \cup IdStrings :
                        LoyaltyFieldChanged(field, odooValue, row[field])
                            <=> IdSet(odooValue) # IdSet(row[field])

\* The loop holds program 501 with the members 7 and 9 against a stored
\* row that lists them as "9,,7" with a duplicate, and the detector finds
\* no change in the lists.
C29_Witness ==
    \E c \in Callers :
        /\ pc[c] = "l_loop" /\ frame[c].i = 1 /\ Len(frame[c].groups) = 1
        /\ ProgramInHand(c).trigger_product_ids = IdsStr(<<7, 9>>)
        /\ \E row \in ProgramAt(frame[c].localProgramsMap, ProgramInHand(c).odoo_program_id) :
              /\ row.trigger_product_ids = IdsStr(<<9, EmptySegment, 7>>)
              /\ row.reward_product_ids = IdsStr(<<9, EmptySegment, 7>>)
              /\ \A field \in IdListFields :
                    ~LoyaltyFieldChanged(field, ProgramInHand(c)[field], row[field])


\* The groups of the remote loyalty rows, and the positions among them of
\* the groups whose type, in lower case, is none of promotion, buy_x_get_y
\* and buyxgety.
RemoteGroups == groupByProgram(remote.loyalty)
DroppedGroups ==
    {k \in 1..Len(RemoteGroups) :
        toLowerCase(Or(RemoteGroups[k].program_type, Str("")).s)
            \notin {"promotion", "buy_x_get_y", "buyxgety"}}
DroppedProgramIds ==
    {Or(parseInt(RemoteGroups[k].program_id), Null) : k \in DroppedGroups}

\* The groups of the list from position k on that are not dropped, in
\* order.
RECURSIVE KeptOf(_, _)
KeptOf(groups, k) ==
    IF k > Len(groups) THEN <<>>
    ELSE IF k \in DroppedGroups THEN KeptOf(groups, k + 1)
    ELSE <<groups[k]>> \o KeptOf(groups, k + 1)

\* Invocation c receives the loyalty rows and groups and filters them in
\* this step.
LoyaltyGrouped(c) == pc[c] = "l_fetch" /\ pc'[c] = "l_load"

\* C30: the step that groups the loyalty rows hands the loop every group of
\* an allowed type, in order, and no other; it counts filtered once per
\* dropped group, leaves skipped and the mirror alone, and filtered plus
\* the groups handed on is the number of groups; and no step leaves a
\* loyalty_programs row for a dropped program.
C30_TypeFilter ==
    [][/\ \A c \in Callers :
             LoyaltyGrouped(c) =>
                 /\ frame'[c].groups = KeptOf(RemoteGroups, 1)
                 /\ loyaltyStats'.filtered = loyaltyStats.filtered + Cardinality(DroppedGroups)
                 /\ loyaltyStats'.skipped = loyaltyStats.skipped
                 /\ loyaltyStats'.filtered + Len(frame'[c].groups) = Len(RemoteGroups)
                 /\ mirrorL' = mirrorL
       /\ \A j \in 1..Len(mirrorL') :
             mirrorL'[j].odoo_program_id \notin DroppedProgramIds]_vars

\* A loyalty pass over a promotion program and a coupon program has left
\* its loop: the coupon program is counted under filtered, nothing is
\* skipped, and the mirror holds the promotion program alone.
C30_Witness ==
    \E c \in Callers :
        /\ AtLoyaltyLoopEnd(c)
        /\ Len(RemoteGroups) = 2
        /\ Cardinality(DroppedGroups) = 1
        /\ loyaltyStats.filtered = 1
        /\ loyaltyStats.skipped = 0
        /\ loyaltyStats.created = 1
        /\ Len(mirrorL) = 1
        /\ mirrorL[1].odoo_program_id = Whole(501)


(* ------------------------------------------------------------------ *)
(* Properties of grouping, counters and the mirror's keys              *)
(* ------------------------------------------------------------------ *)

\* The positions of the remote loyalty rows that carry programId.
RowsOfProgram(programId) ==
    {k \in 1..Len(remote.loyalty) : remote.loyalty[k].program_id = programId}

\* The ids the rows at positions ks contribute between them.
MemberIdsAt(ks) == UNION {SeqRange(RowMemberIds(remote.loyalty[k])) : k \in ks}

\* C31: every group the loyalty loop holds has the scalar fields of the
\* first remote row that carries its program_id, whatever the later rows
\* of that program carry, and the member ids of all of them.
C31_FirstRowSetsScalars ==
    \A c \in Callers :
        pc[c] \in {"l_load", "l_loop"} =>
            \A n \in 1..Len(frame[c].groups) :
                LET group == frame[c].groups[n]
                    ks == RowsOfProgram(group.program_id)
                    first == CHOOSE k \in ks : \A j \in ks : k <= j
                IN  /\ ks # {}
                    /\ [group EXCEPT !.product_ids = <<>>] = NewGroup(remote.loyalty[first])
                    /\ SeqRange(group.product_ids) = MemberIdsAt(ks)

\* Two rows of program 501 arrived with discounts 5 and 4: the one group
\* the loop holds carries the discount 5 and the members 7 and 9.
C31_Witness ==
    \E c \in Callers :
        /\ pc[c] = "l_loop"
        /\ Len(remote.loyalty) = 2
        /\ remote.loyalty[1].discount_amount = Whole(5)
        /\ remote.loyalty[2].discount_amount = Whole(4)
        /\ Len(frame[c].groups) = 1
        /\ frame[c].groups[1].discount = Whole(5)
        /\ SeqRange(frame[c].groups[1].product_ids) = {7, 9}


\* The counters of syncStats and what they add up to.
Counters == {"created", "updated", "unchanged", "skipped", "errors", "filtered"}
Total(stats) ==
    stats.created + stats.updated + stats.unchanged + stats.skipped
        + stats.errors + stats.filtered

\* C36: every iteration of a reconciler's loop raises exactly one counter
\* by one, and when the loop is over the product counters add up to the
\* number of products fetched and the loyalty counters, filtered among
\* them, to the number of groups.
C36_CountersPartition ==
    [][\A c \in Callers :
          /\ ProductIteration(c) =>
                \E k \in Counters \ {"filtered"} : productStats' = Bump(productStats, k)
          /\ LoyaltyIteration(c) =>
                \E k \in Counters \ {"filtered"} : loyaltyStats' = Bump(loyaltyStats, k)
          /\ (pc'[c] = "p_loop" /\ frame'[c].i > Len(frame'[c].odooProducts)) =>
                Total(productStats') = Len(frame'[c].odooProducts)
          /\ (pc'[c] = "l_loop" /\ frame'[c].i > Len(frame'[c].groups)) =>
                Total(loyaltyStats') = Len(RemoteGroups)]_vars

\* A product pass over a product without id and a product whose INSERT
\* failed has left its loop with skipped = 1 and errors = 1.
C36_Witness ==
    \E c \in Callers :
        /\ AtProductLoopEnd(c)
        /\ Len(frame[c].odooProducts) = 2
        /\ productStats.skipped = 1
        /\ productStats.errors = 1
        /\ Total(productStats) = 2

\* No two rows of the products table share an id, and no two rows of the
\* loyalty_programs table an odoo_program_id.
OneRowPerRemoteId ==
    /\ \A r1, r2 \in mirrorP : r1.id = r2.id => r1 = r2
    /\ \A j, k \in 1..Len(mirrorL) :
          mirrorL[j].odoo_program_id = mirrorL[k].odoo_program_id => j = k

\* The iteration of invocation c is about a product whose id the snapshot
\* lacks and an earlier iteration of the pass has already inserted.
RepeatedNewProduct(c) ==
    /\ ProductIteration(c)
    /\ Truthy(ProductInHand(c).id) /\ Truthy(ProductInHand(c).template_id)
    /\ ProductsAt(frame[c].localProductsMap, ProductInHand(c).id) = {}
    /\ ProductsAt(mirrorP, ProductInHand(c).id) # {}

Reacquiring == {r \in Requests : rq[r].pc = "reauth"}

\* C32 (as the specification states it): of the odooRequest calls running
\* together, at most one awaits the getAuthToken call of its catch branch
\* at any time.
C32_OneReacquisitionInFlight == Cardinality(Reacquiring) <= 1


(* ------------------------------------------------------------------ *)
(* Properties of startup, the partial triggers and the schedule        *)
(* ------------------------------------------------------------------ *)

\* Invocation c calls syncProducts or syncLoyalty in this step; c is such
\* a call.
PartialTrigger(c) == pc[c] = "idle" /\ op'[c] \in {"syncProducts", "syncLoyalty"}
PartialPass(c) == op[c] \in {"syncProducts", "syncLoyalty"}

StartupSyncStarts(c) == pc[c] = "init_odoo" /\ pc'[c] = "p_fetch"

\* C33 (as the specification states it): once an initialize call has
\* marked the orchestrator initialized and gone on to its startup sync, no
\* other initialize call starts a startup sync, a call that was already
\* under way at that moment included.
C33_StartupSyncOnce ==
    [][\A c \in Callers : StartupSyncStarts(c) => ~initialized]_vars


\* The getAuthToken call of the try block of call q has failed.
FirstAcquisitionFailed(q) ==
    /\ Len(q.auths) >= 1
    /\ q.auths[1].at = "try"
    /\ q.auths[1].status \in AuthReplies \ {"token"}

\* C34 (as the specification states it): a call that started without a
\* cached token and whose getAuthToken failed, with whatever status, has
\* ended with that failure, has sent no request and has asked for no
\* second token.
C34_FailedAcquisitionSurfaces ==
    \A r \in Requests :
        FirstAcquisitionFailed(rq[r]) =>
            /\ rq[r].pc = "done"
            /\ rq[r].result.kind = "error"
            /\ rq[r].sent = <<>>
            /\ Len(rq[r].auths) = 1


\* Every attempt sent so far went out under a token getAuthToken handed
\* out.
SentUnderIssuedToken ==
    \A r \in Requests :
        \A k \in 1..Len(rq[r].sent) : rq[r].sent[k].token \in 1..issued

\* A getAuthToken call of call r ends in this step, and how.
AcquisitionEnds(r, answer) ==
    /\ rq[r].pc \in {"auth", "reauth"}
    /\ Len(rq[r].auths) >= 1
    /\ rq[r].auths[Len(rq[r].auths)].status = "pending"
    /\ rq'[r].auths[Len(rq[r].auths)].status = answer

\* A token response without a token field leaves no token cached.
EmptyAnswerClearsCache ==
    \A r \in Requests : AcquisitionEnds(r, "empty") => authToken' = 0

\* A failed getAuthToken call of a catch branch leaves no token cached.
FailedReacquisitionLeavesCacheEmpty ==
    \A r \in Requests :
        \A answer \in AuthReplies \ {"token"} :
            (rq[r].pc = "reauth" /\ AcquisitionEnds(r, answer)) => authToken' = 0

\* C35 (as the specification states it): every request sent carries a
\* token a successful acquisition returned; a token response without a
\* token field leaves the cache empty; and after a re-acquisition that
\* failed following a 401 the cache is empty.
C35_TokenCacheDiscipline ==
    [][/\ SentUnderIssuedToken'
       /\ EmptyAnswerClearsCache
       /\ FailedReacquisitionLeavesCacheEmpty]_vars


\* getStatus().cronEnabled: !!this.cronJob
cronEnabled == cronJob

\* C39: whatever setupCronJob, stopCronJob and cleanup calls have been
\* made, by the routes or by initialize, at most one scheduled task is
\* live, and getStatus().cronEnabled is true exactly when one is.
C39_AtMostOneCronJob ==
    /\ liveTasks \in {0, 1}
    /\ cronEnabled <=> liveTasks = 1

\* initialize has returned with the cron job set up, a cron tick of the
\* one live task is running its pass, and the status reports the job.
C39_Witness ==
    /\ initialized /\ autoSync
    /\ cronEnabled /\ liveTasks = 1
    /\ \E c, d \in Callers :
          /\ op[c] = "initialize" /\ pc[c] = "returned"
          /\ op[d] = "cron" /\ InPass(d)


\* What SYNC_CRON_SCHEDULE may be: unset, or a schedule.
ScheduleEnvs == {Undefined, Str("*/10 * * * *")}

\* setupCronJob: const schedule = process.env.SYNC_CRON_SCHEDULE || '* * * * *'
setupCronJobSchedule(env) == Or(env, Str("* * * * *"))

\* getStatus().cronSchedule, and the schedule field of POST /cron/start:
\* process.env.SYNC_CRON_SCHEDULE || '*/5 * * * *'
getStatusSchedule(env) == Or(env, Str("*/5 * * * *"))

\* C40 (as the specification states it): while a cron job is active, the
\* schedule getStatus and the cron/start endpoint report is the schedule
\* the job was created with, whether SYNC_CRON_SCHEDULE is set or not.
C40_ReportedScheduleIsActual ==
    cronJob =>
        \A env \in ScheduleEnvs : getStatusSchedule(env) = setupCronJobSchedule(env)

====
